---- MODULE Spec2Model ----
(***************************************************************************)
(* Life-OS: the capture pipeline (CaptureBox.handleSubmit/handleConfirm),  *)
(* the Supabase record store, the capture-media bucket and the Google      *)
(* Calendar bridge (push, pull, delete), as a state machine.               *)
(*                                                                         *)
(* Every handler is asynchronous: one action is the code that runs from    *)
(* one await to the next.  An external call takes effect in the step in    *)
(* which it returns.                                                       *)
(***************************************************************************)
EXTENDS Integers, Sequences, FiniteSets, TLC

VARIABLES
    ui,          \* CaptureBox state: input, loading, success, parsed, photoFile,
                 \*   photoUploading, notice
    pc, cap,     \* the capture in flight: where it awaits, its locals
    tasks, events, notes, transactions,     \* the Supabase tables
    media,       \* the capture-media bucket: keys of the stored objects
    gcal,        \* the primary Google calendar: external id -> event
    nextId,      \* the next fresh identifier (crypto.randomUUID, Google's ids)
    now,         \* the clock
    syncPc, sync,    \* syncFromGoogleCalendar in flight
    delPc, del,      \* Calendar.handleDelete in flight
    other,       \* storage.notes.create in flight in a second session of the user
    call,        \* history: the last direct call of a library function and its result
    obs,         \* history: what the calls of the current capture returned
    nSubmits, nSyncs, nDeletes, nRemote     \* history: operations started

tableVars == <<tasks, events, notes, transactions>>
storeVars == <<tasks, events, notes, transactions, media, gcal>>
calVars   == <<syncPc, sync, delPc, del>>
countVars == <<nSubmits, nSyncs, nDeletes, nRemote>>
vars      == <<ui, pc, cap, tasks, events, notes, transactions, media, gcal, nextId,
               now, syncPc, sync, delPc, del, other, call, obs, nSubmits, nSyncs,
               nDeletes, nRemote>>

\* operations started and clock ticks so far
Started == nSubmits + nSyncs + nDeletes + nRemote + now

----------------------------------------------------------------------------
(* Bounds of the model *)

MaxSubmits == 1
MaxSyncs   == 1
MaxDeletes == 1
MaxRemote  == 1
MaxTime    == 1
MaxStarted == 4
MaxCalls   == 2

(* Program constants *)

MAX_PHOTO_SIZE_MB == 8

----------------------------------------------------------------------------
(* Values *)

\* null / undefined of an optional id, url or Date; an Invalid Date
None == 0
NaT  == -1

NoParsed == [type |-> "null"]
NoNotice == [type |-> "none", text |-> "none"]

\* text typed into the capture box: empty, blank, a sentence
Inputs == {<<>>, <<" ">>, <<"x">>}

IsSpace(c) == c = " "

RECURSIVE TrimStart(_)
TrimStart(s) ==
    IF s # <<>> /\ IsSpace(Head(s)) THEN TrimStart(Tail(s)) ELSE s

RECURSIVE TrimEnd(_)
TrimEnd(s) ==
    IF s # <<>> /\ IsSpace(s[Len(s)]) THEN TrimEnd(SubSeq(s, 1, Len(s) - 1)) ELSE s

\* String.prototype.trim
Trim(s) == TrimEnd(TrimStart(s))

\* files offered to the photo picker: MIME class and size in MB
PhotoFiles == [image : BOOLEAN, sizeMB : {MAX_PHOTO_SIZE_MB, MAX_PHOTO_SIZE_MB + 1}]

----------------------------------------------------------------------------
(* The classifier's JSON responses (gemini.ts, the formats of the prompt).  *)
(* Dates arrive as strings; "garbage" stands for a string Date cannot      *)
(* parse or a missing field.                                               *)

DateStrings == {"T1", "T2", "garbage"}

\* new Date(string)
ToDate(str) ==
    CASE str = "T1" -> 1
      [] str = "T2" -> 2
      [] OTHER      -> NaT

KnownTypes == {"task", "event", "expense", "income", "note"}

TaskResponses ==
    {[type |-> "task", data |-> [priority |-> p]] : p \in {"", "high"}}

EventResponses ==
    {[type |-> "event", data |-> [startTime |-> s, endTime |-> e]] :
        s \in DateStrings, e \in DateStrings}

ValidEventResponses ==
    {r \in EventResponses : ToDate(r.data.startTime) # NaT /\ ToDate(r.data.endTime) # NaT}

TransactionResponses ==
    {[type |-> t, data |-> [amount |-> a]] : t \in {"expense", "income"}, a \in {45, 0}}

NoteResponses ==
    {[type |-> "note", data |-> [title |-> <<>>, content |-> c]] :
        c \in {<<"g", ":", "m">>, <<"G", ":", "e">>, <<"p">>}}

\* a discriminant outside the five kinds: JSON.parse accepts it
UnknownResponses == {[type |-> "reminder", data |-> [title |-> <<"x">>]]}

Responses ==
    TaskResponses \cup EventResponses \cup TransactionResponses
        \cup NoteResponses \cup UnknownResponses

\* parseCapture, lines 97-116: JSON.parse keeps whatever the response holds and
\* only converts the date strings of an event (the optional dates of a task and
\* of a transaction are not modelled)
ParsedCapture(r) ==
    IF r.type = "event"
    THEN [r EXCEPT !.data = [startTime |-> ToDate(r.data.startTime),
                             endTime   |-> ToDate(r.data.endTime)]]
    ELSE r

----------------------------------------------------------------------------
(* Notes: the bucket pattern and the merge (SupabaseStorageService).        *)
(* A string is a sequence of characters; the tags of the rendered markup    *)
(* are single symbols.                                                      *)

TITLE_CHARS == 50

Min(a, b) == IF a < b THEN a ELSE b

\* String.prototype.substring(0, n)
Substring0(s, n) == SubSeq(s, 1, Min(n, Len(s)))

ToLowerChar(c) == IF c = "G" THEN "g" ELSE c

ToLowerCase(s) == [i \in 1..Len(s) |-> ToLowerChar(s[i])]

IsSeparator(c) == c \in {":", "-"}

\* the split of a greedy group 1, /^(.+)(?::|-)\s*(.+)$/: the last such separator
SplitAtLast(s) ==
    LET cands == {i \in 2..(Len(s) - 1) : IsSeparator(s[i])}
    IN IF cands = {} THEN 0 ELSE CHOOSE i \in cands : \A j \in cands : i >= j

\* the first index the lazy group 1 of /^(.+?)(?::|-)\s*(.+)$/ can stop before:
\* a separator with at least one character on each side; 0 when there is none
SplitAt(s) ==
    LET cands == {i \in 2..(Len(s) - 1) : IsSeparator(s[i])}
    IN IF cands = {} THEN 0 ELSE CHOOSE i \in cands : \A j \in cands : i <= j

\* extractMergeInfo
ExtractMergeInfo(note) ==
    LET source == Trim(IF note.title # <<>> THEN note.title ELSE note.content)
        i      == SplitAt(source)
        rest   == SubSeq(source, i + 1, Len(source))
        \* \s* is greedy but leaves (.+) one character
        group2 == IF TrimStart(rest) # <<>> THEN TrimStart(rest)
                  ELSE SubSeq(rest, Len(rest), Len(rest))
        bucketTitle == Trim(SubSeq(source, 1, i - 1))
        entry       == Trim(group2)
    IN IF i = 0 \/ bucketTitle = <<>> \/ entry = <<>>
       THEN [found |-> FALSE, bucketTitle |-> <<>>, entry |-> <<>>]
       ELSE [found |-> TRUE, bucketTitle |-> bucketTitle, entry |-> entry]

\* String.prototype.replace(/c/g, rep) for a one-character pattern
RECURSIVE ReplaceAll(_, _, _)
ReplaceAll(text, c, rep) ==
    IF text = <<>> THEN <<>>
    ELSE (IF Head(text) = c THEN rep ELSE <<Head(text)>>) \o ReplaceAll(Tail(text), c, rep)

\* an escaper without the third replace
EscapeHtmlKeepsGt(text) ==
    ReplaceAll(ReplaceAll(text, "&", <<"&", "a", "m", "p", ";">>),
               "<", <<"&", "l", "t", ";">>)

\* escapeHtml: '&' is replaced first, so the '&' of the later escapes stays
EscapeHtml(text) ==
    ReplaceAll(ReplaceAll(ReplaceAll(text, "&", <<"&", "a", "m", "p", ";">>),
                          "<", <<"&", "l", "t", ";">>),
               ">", <<"&", "g", "t", ";">>)

\* the list item `<div>(bullet) ${escapedEntry}</div>`
EntryMarkup(entry) == <<"<div>", "bullet", " ">> \o EscapeHtml(entry) \o <<"</div>">>

EndsWithBr(s) == s # <<>> /\ s[Len(s)] = "<br />"

\* a merge that writes the entry over the note
MergedContentReplacing(baseContent, entryMarkup) == entryMarkup

Contains(s, t) == \E i \in 0..(Len(s) - Len(t)) : SubSeq(s, i + 1, i + Len(t)) = t

\* a merge that leaves alone a note which already holds the entry
MergedContentOnce(baseContent, entryMarkup) ==
    IF Contains(baseContent, entryMarkup) THEN baseContent
    ELSE IF Trim(baseContent) # <<>>
    THEN baseContent \o (IF EndsWithBr(Trim(baseContent)) THEN <<>> ELSE <<"<br />">>)
             \o entryMarkup
    ELSE entryMarkup

\* notes.create, lines 231-237
MergedContent(baseContent, entryMarkup) ==
    IF Trim(baseContent) # <<>>
    THEN baseContent \o (IF EndsWithBr(Trim(baseContent)) THEN <<>> ELSE <<"<br />">>)
             \o entryMarkup
    ELSE entryMarkup

\* SQL LIKE: % matches any run of characters, _ any one character
RECURSIVE Like(_, _)
Like(s, p) ==
    IF p = <<>> THEN s = <<>>
    ELSE IF Head(p) = "%" THEN Like(s, Tail(p)) \/ (s # <<>> /\ Like(Tail(s), p))
    ELSE s # <<>> /\ (Head(p) = "_" \/ Head(p) = Head(s)) /\ Like(Tail(s), Tail(p))

\* a lookup that never finds a row
ILikeNever(value, pattern) == FALSE

\* .ilike('title', pattern)
ILike(value, pattern) == Like(ToLowerCase(value), ToLowerCase(pattern))

----------------------------------------------------------------------------
(* Rows of the Supabase tables *)

\* tasks.create, lines 59-71
TaskRow(id, taskData) ==
    [id        |-> id,
     priority  |-> IF taskData.priority # "" THEN taskData.priority ELSE "medium",
     photo_url |-> taskData.photoUrl]

\* Date.prototype.toISOString throws a RangeError on an Invalid Date
IsoThrows(d) == d = NaT

\* an events.create that takes the row's own id for its external id
EventRowLinked(id, eventData, t) ==
    [id              |-> id,
     start_time      |-> eventData.startTime,
     end_time        |-> eventData.endTime,
     google_event_id |-> id,
     created_at      |-> t,
     updated_at      |-> t]

\* events.create, lines 147-159; created_at and updated_at are the table's defaults
EventRow(id, eventData, t) ==
    [id              |-> id,
     start_time      |-> eventData.startTime,
     end_time        |-> eventData.endTime,
     google_event_id |-> None,
     created_at      |-> t,
     updated_at      |-> t]

\* transactions.create, lines 363-373
TransactionRow(id, transactionData) ==
    [id        |-> id,
     amount    |-> transactionData.amount,
     type      |-> transactionData.type,
     photo_url |-> transactionData.photoUrl]

\* a note row whose default title is the whole content
NoteRowWholeTitle(id, noteData, t) ==
    [id        |-> id,
     title     |-> IF noteData.title # <<>> THEN noteData.title ELSE noteData.content,
     content   |-> noteData.content,
     photo_url |-> noteData.photoUrl,
     created_at |-> t,
     updated_at |-> t]

\* notes.create, lines 256-264
NoteRow(id, noteData, t) ==
    [id        |-> id,
     title     |-> IF noteData.title # <<>> THEN noteData.title
                   ELSE Substring0(noteData.content, TITLE_CHARS),
     content   |-> noteData.content,
     photo_url |-> noteData.photoUrl,
     created_at |-> t,
     updated_at |-> t]

NoteIds(table) == {n.id : n \in table}

\* the row with this id, as a set: empty when there is none
RowsById(table, id) == {r \in table : r.id = id}

\* the update timestamp of a row is refreshed on every mutation; the update
\* payloads of the storage service carry none, the table does it
Touch(r, t) == [r EXCEPT !.updated_at = t]

\* a link that stamps the row as created anew
SetGoogleEventIdRecreating(table, id, googleEventId, t) ==
    {IF r.id = id
     THEN [r EXCEPT !.google_event_id = googleEventId, !.created_at = t, !.updated_at = t]
     ELSE r : r \in table}

\* events.update(id, { googleEventId }), lines 167-183
SetGoogleEventId(table, id, googleEventId, t) ==
    {IF r.id = id
     THEN Touch([r EXCEPT !.google_event_id = googleEventId], t)
     ELSE r : r \in table}

\* an update that writes nothing
SetNoteContentIgnored(table, id, newContent, t) == table

\* notes.create, lines 239-244: .update({ content: newContent }).eq('id', id)
SetNoteContent(table, id, newContent, t) ==
    {IF r.id = id THEN Touch([r EXCEPT !.content = newContent], t) ELSE r : r \in table}

----------------------------------------------------------------------------
(* The Google Calendar bridge (google-calendar.ts, the module CaptureBox    *)
(* and the Calendar page import; calendar.ts is the gapi variant)           *)

\* session.provider_token as getGoogleAccessToken finds it
Tokens == {"absent", "expired", "valid"}

\* googleCalendarRequest: throws without a token before any fetch; with one it
\* fetches, and throws when the response is not ok (an expired token is a 401)
GoogleCalendarRequest(token, apiOk) ==
    [fetched |-> token # "absent",
     threw   |-> token # "valid" \/ ~apiOk]

\* a push that posts a new event whatever the local event carries
PushAlwaysPosts(event, token, apiOk, freshId) ==
    LET req == GoogleCalendarRequest(token, apiOk)
    IN [fetched |-> req.fetched,
        threw   |-> req.threw,
        skipped |-> FALSE,
        method  |-> "POST",
        id      |-> IF req.threw THEN None ELSE freshId]

\* pushToGoogleCalendar of google-calendar.ts: PUT for a linked event, POST for
\* an unlinked one; whatever googleCalendarRequest throws is logged and rethrown
PushToGoogleCalendar(event, token, apiOk, freshId) ==
    LET req == GoogleCalendarRequest(token, apiOk)
    IN [fetched |-> req.fetched,
        threw   |-> req.threw,
        skipped |-> FALSE,
        method  |-> IF event.google_event_id # None THEN "PUT" ELSE "POST",
        id      |-> IF req.threw THEN None
                    ELSE IF event.google_event_id # None THEN event.google_event_id
                    ELSE freshId]

\* deleteFromGoogleCalendar of google-calendar.ts
DeleteFromGoogleCalendar(googleEventId, token, apiOk) ==
    LET req == GoogleCalendarRequest(token, apiOk)
    IN [fetched |-> req.fetched, threw |-> req.threw, skipped |-> FALSE]

\* pushToGoogleCalendar of calendar.ts: returns undefined when gapi is not
\* signed in
GapiPushToGoogleCalendar(event, signedIn, apiOk, freshId) ==
    [fetched |-> signedIn,
     threw   |-> signedIn /\ ~apiOk,
     skipped |-> ~signedIn,
     method  |-> IF event.google_event_id # None THEN "PUT" ELSE "POST",
     id      |-> IF ~signedIn \/ ~apiOk THEN None
                 ELSE IF event.google_event_id # None THEN event.google_event_id
                 ELSE freshId]

\* deleteFromGoogleCalendar of calendar.ts
GapiDeleteFromGoogleCalendar(googleEventId, signedIn, apiOk) ==
    [fetched |-> signedIn, threw |-> signedIn /\ ~apiOk, skipped |-> ~signedIn]

\* the event Google stores for a pushed local event
RemoteEvent(id, event, t) ==
    [id |-> id, timed |-> TRUE, start |-> event.start_time, end |-> event.end_time,
     updated |-> t]

\* the calendar after a push that did not throw
Pushed(calendar, event, res, t) ==
    IF res.method = "POST"
    THEN calendar \cup {RemoteEvent(res.id, event, t)}
    ELSE {IF g.id = res.id THEN RemoteEvent(res.id, event, t) ELSE g : g \in calendar}

----------------------------------------------------------------------------
(* CaptureBox *)

PhotoTypes == {"task", "note", "expense", "income"}

NoCap == [file |-> None, data |-> NoParsed, photoUrl |-> None,
          createdEvent |-> EventRow(None, [startTime |-> NaT, endTime |-> NaT], 0),
          googleEventId |-> None, mergeInfo |-> [found |-> FALSE],
          noteData |-> [title |-> <<>>, content |-> <<>>, photoUrl |-> None],
          existingNote |-> None, baseContent |-> <<>>, newContent |-> <<>>]

NoPush == [called |-> FALSE, token |-> "none", fetched |-> FALSE, threw |-> FALSE,
           skipped |-> FALSE]

NewObs == [fatal |-> "none", parse |-> "none", upload |-> "none", store |-> "none",
           push |-> NoPush, link |-> "none", notices |-> {}, result |-> "none",
           saved |-> None, seen |-> {}]

\* showNotice
ShowNotice(u, text, type) == [u EXCEPT !.notice = [type |-> type, text |-> text]]

\* handleConfirm, lines 225-228 (setInput, setParsed, clearPhotoSelection), then
\* handleSubmit, lines 153-158 (setSuccess(true), finally setLoading(false))
Saved(u) ==
    [u EXCEPT !.input = <<>>, !.parsed = NoParsed, !.photoFile = None,
              !.photoUploading = FALSE, !.success = TRUE, !.loading = FALSE]

\* a handleSubmit without its finally
ThrownWithoutFinally(u) == u

\* a throw out of parseCapture or handleConfirm: handleSubmit's catch and finally
Thrown(u) == [u EXCEPT !.loading = FALSE]

\* where the switch of handleConfirm awaits first
SwitchPc(captureData) ==
    CASE captureData.type = "task"  -> "tasks.create"
      [] captureData.type = "event" -> "events.create"
      [] captureData.type \in {"expense", "income"} -> "transactions.create"
      [] captureData.type = "note"  ->
            IF ExtractMergeInfo(captureData.data).found THEN "notes.select"
            ELSE "notes.insert"
      [] OTHER -> "idle"

\* handleSubmit, line 144: the guard
Rejects(u) == Trim(u.input) = <<>> \/ u.loading

\* handleSubmit returning at once
HandleSubmitRejected ==
    /\ nSubmits < MaxSubmits
    /\ Rejects(ui)
    /\ nSubmits' = nSubmits + 1
    /\ IF pc = "idle"
       THEN obs' = [NewObs EXCEPT !.fatal = "validation", !.result = "failed"]
       ELSE UNCHANGED obs
    /\ UNCHANGED <<ui, pc, cap, storeVars, nextId, now, call, other, calVars, nSyncs, nDeletes,
                   nRemote>>

\* handleSubmit up to await parseCapture(input)
HandleSubmit ==
    /\ nSubmits < MaxSubmits /\ Started < MaxStarted
    /\ ~Rejects(ui)
    /\ pc = "idle"
    /\ nSubmits' = nSubmits + 1
    /\ ui' = [ui EXCEPT !.loading = TRUE, !.success = FALSE]
    /\ pc' = "parseCapture"
    /\ cap' = [NoCap EXCEPT !.file = ui.photoFile]
    /\ obs' = NewObs
    /\ UNCHANGED <<storeVars, nextId, now, call, other, calVars, nSyncs, nDeletes, nRemote>>

\* a parseCapture that fails only after the selected photo went to the bucket
ParseCaptureThrowsAfterUpload ==
    /\ pc = "parseCapture"
    /\ ui' = Thrown(ui)
    /\ pc' = "idle"
    /\ obs' = [obs EXCEPT !.parse = "threw", !.fatal = "classification",
                          !.result = "failed"]
    /\ media' = media \cup {nextId}
    /\ UNCHANGED <<cap, tableVars, gcal, nextId, now, call, other, calVars, countVars>>

\* parseCapture throws: the call failed or the text is not JSON
ParseCaptureThrows ==
    /\ pc = "parseCapture"
    /\ ui' = Thrown(ui)
    /\ pc' = "idle"
    /\ obs' = [obs EXCEPT !.parse = "threw", !.fatal = "classification",
                          !.result = "failed"]
    /\ UNCHANGED <<cap, storeVars, nextId, now, call, other, calVars, countVars>>

\* the rest of handleConfirm once the photo is settled: the switch; a type
\* with no case falls through to lines 225-228
EnterSwitch(u, captureData, photoUrl, o) ==
    /\ pc' = SwitchPc(captureData)
    /\ cap' = [cap EXCEPT
                  !.data = [captureData EXCEPT !.data =
                               [f \in DOMAIN captureData.data \cup {"photoUrl"} |->
                                   IF f = "photoUrl" THEN photoUrl
                                   ELSE captureData.data[f]]],
                  !.photoUrl = photoUrl,
                  \* the argument of storage.notes.create
                  !.noteData = IF captureData.type = "note"
                               THEN [title    |-> captureData.data.title,
                                     content  |-> captureData.data.content,
                                     photoUrl |-> photoUrl]
                               ELSE cap.noteData,
                  !.mergeInfo = IF captureData.type = "note"
                                THEN ExtractMergeInfo(captureData.data)
                                ELSE [found |-> FALSE]]
    /\ IF pc' = "idle"
       THEN ui' = Saved(u) /\ obs' = [o EXCEPT !.result = "success"]
       ELSE ui' = u /\ obs' = o

\* parseCapture returns; handleConfirm up to its first await
ParseCaptureReturns(r) ==
    /\ pc = "parseCapture"
    /\ LET captureData == ParsedCapture(r)
           u == [ui EXCEPT !.parsed = captureData]
           o == [obs EXCEPT !.parse = "ok"]
           supportsPhoto == captureData.type \in PhotoTypes
       IN IF cap.file # None /\ supportsPhoto
          THEN /\ ui' = [u EXCEPT !.photoUploading = TRUE]
               /\ pc' = "uploadCapturePhoto"
               /\ cap' = [cap EXCEPT !.data = captureData]
               /\ obs' = o
          ELSE IF cap.file # None
          THEN EnterSwitch(ShowNotice(u, "photos unsupported", "info"), captureData,
                           None, [o EXCEPT !.notices = @ \cup {"photos unsupported"}])
          ELSE EnterSwitch(u, captureData, None, o)
    /\ UNCHANGED <<storeVars, nextId, now, call, other, calVars, countVars>>

\* an upload whose throw is not caught in handleConfirm: the capture aborts
UploadCapturePhotoAborts(ok) ==
    /\ pc = "uploadCapturePhoto"
    /\ IF ok
       THEN /\ media' = media \cup {nextId}
            /\ nextId' = nextId + 1
            /\ EnterSwitch([ui EXCEPT !.photoUploading = FALSE], cap.data, nextId,
                           [obs EXCEPT !.upload = "ok"])
       ELSE /\ ui' = Thrown([ui EXCEPT !.photoUploading = FALSE])
            /\ pc' = "idle"
            /\ obs' = [obs EXCEPT !.upload = "failed", !.fatal = "upload",
                                  !.result = "failed"]
            /\ UNCHANGED <<cap, media, nextId>>
    /\ UNCHANGED <<tableVars, gcal, now, call, other, calVars, countVars>>

\* uploadCapturePhoto returns the public URL of the stored object, or throws
UploadCapturePhotoReturns(ok) ==
    /\ pc = "uploadCapturePhoto"
    /\ LET u == [ui EXCEPT !.photoUploading = FALSE]
       IN IF ok
          THEN /\ media' = media \cup {nextId}
               /\ nextId' = nextId + 1
               /\ EnterSwitch(u, cap.data, nextId, [obs EXCEPT !.upload = "ok"])
          ELSE /\ UNCHANGED <<media, nextId>>
               /\ EnterSwitch(ShowNotice(u, "upload failed", "error"), cap.data, None,
                              [obs EXCEPT !.upload = "failed",
                                          !.notices = @ \cup {"upload failed"}])
    /\ UNCHANGED <<tableVars, gcal, now, call, other, calVars, countVars>>

\* a store call of the switch threw: handleConfirm rethrows, handleSubmit
\* catches
StoreThrows ==
    /\ ui' = Thrown(ui)
    /\ pc' = "idle"
    /\ obs' = [obs EXCEPT !.store = "failed", !.fatal = "store", !.result = "failed"]
    /\ UNCHANGED cap

\* the switch is over: lines 225-228, then handleSubmit reports success
CaptureSaved(o) ==
    /\ ui' = Saved(ui)
    /\ pc' = "idle"
    /\ obs' = [o EXCEPT !.result = "success"]

\* case 'task': storage.tasks.create returns or throws
TasksCreateReturns(ok) ==
    /\ pc = "tasks.create"
    /\ IF ok
       THEN /\ tasks' = tasks \cup {TaskRow(nextId, cap.data.data)}
            /\ nextId' = nextId + 1
            /\ CaptureSaved([obs EXCEPT !.store = "ok", !.saved = nextId])
            /\ UNCHANGED cap
       ELSE StoreThrows /\ UNCHANGED <<tasks, nextId>>
    /\ UNCHANGED <<events, notes, transactions, media, gcal, now, call, other, calVars,
                   countVars>>

\* case 'expense', 'income': storage.transactions.create returns or throws
TransactionsCreateReturns(ok) ==
    /\ pc = "transactions.create"
    /\ IF ok
       THEN /\ transactions' = transactions \cup
                   {TransactionRow(nextId, [amount   |-> cap.data.data.amount,
                                            type     |-> cap.data.type,
                                            photoUrl |-> cap.data.data.photoUrl])}
            /\ nextId' = nextId + 1
            /\ CaptureSaved([obs EXCEPT !.store = "ok", !.saved = nextId])
            /\ UNCHANGED cap
       ELSE StoreThrows /\ UNCHANGED <<transactions, nextId>>
    /\ UNCHANGED <<tasks, events, notes, media, gcal, now, call, other, calVars, countVars>>

\* case 'event': storage.events.create returns the created row or throws; with
\* the row handleConfirm goes on to await pushToGoogleCalendar(createdEvent)
EventsCreateReturns(ok) ==
    /\ pc = "events.create"
    /\ LET eventData == cap.data.data
       IN IF ok /\ ~IsoThrows(eventData.startTime) /\ ~IsoThrows(eventData.endTime)
          THEN /\ events' = events \cup {EventRow(nextId, eventData, now)}
               /\ nextId' = nextId + 1
               /\ cap' = [cap EXCEPT !.createdEvent = EventRow(nextId, eventData, now)]
               /\ pc' = "pushToGoogleCalendar"
               /\ obs' = [obs EXCEPT !.store = "ok", !.saved = nextId]
               /\ UNCHANGED ui
          ELSE StoreThrows /\ UNCHANGED <<events, nextId>>
    /\ UNCHANGED <<tasks, notes, transactions, media, gcal, now, call, other, calVars,
                   countVars>>

\* pushToGoogleCalendar(createdEvent) returns the external id or throws; a
\* throw is caught and logged (lines 203-206); with an id handleConfirm goes on
\* to await storage.events.update(createdEvent.id, { googleEventId })
PushReturns(token, apiOk) ==
    /\ pc = "pushToGoogleCalendar"
    /\ LET res == PushToGoogleCalendar(cap.createdEvent, token, apiOk, nextId)
           o   == [obs EXCEPT !.push = [called |-> TRUE, token |-> token,
                                        fetched |-> res.fetched, threw |-> res.threw,
                                        skipped |-> res.skipped]]
       IN IF res.threw
          THEN CaptureSaved(o) /\ UNCHANGED <<cap, gcal, nextId>>
          ELSE /\ gcal' = Pushed(gcal, cap.createdEvent, res, now)
               /\ nextId' = nextId + 1
               /\ IF res.id # None
                  THEN /\ cap' = [cap EXCEPT !.googleEventId = res.id]
                       /\ pc' = "events.update"
                       /\ obs' = o
                       /\ UNCHANGED ui
                  ELSE CaptureSaved(o) /\ UNCHANGED cap
    /\ UNCHANGED <<tableVars, media, now, call, other, calVars, countVars>>

\* storage.events.update(createdEvent.id, { googleEventId }) returns or throws
\* (it throws too when the row is gone); the throw is caught with the push's
LinkReturns(ok) ==
    /\ pc = "events.update"
    /\ IF ok /\ RowsById(events, cap.createdEvent.id) # {}
       THEN /\ events' = SetGoogleEventId(events, cap.createdEvent.id,
                                          cap.googleEventId, now)
            /\ CaptureSaved([obs EXCEPT !.link = "ok"])
       ELSE /\ UNCHANGED events
            /\ CaptureSaved([obs EXCEPT !.link = "failed"])
    /\ UNCHANGED <<cap, tasks, notes, transactions, media, gcal, nextId, now, call, other,
                   calVars, countVars>>

\* case 'note', a bucket pattern: the .ilike('title', bucketTitle).limit(1)
\* select returns any one matching row, none, or an error
NotesSelectReturns(ok) ==
    /\ pc = "notes.select"
    /\ IF ok
       THEN /\ LET matching    == {n \in notes :
                                        ILike(n.title, cap.mergeInfo.bucketTitle)}
                    entryMarkup == EntryMarkup(cap.mergeInfo.entry)
                IN IF matching # {}
                   THEN \E existingNote \in matching :
                          /\ cap' = [cap EXCEPT
                                       !.existingNote = existingNote.id,
                                       !.baseContent = existingNote.content,
                                       !.newContent =
                                           MergedContent(existingNote.content,
                                                         entryMarkup)]
                          /\ pc' = "notes.update"
                   ELSE /\ cap' = [cap EXCEPT
                                     !.noteData.title = cap.mergeInfo.bucketTitle,
                                     !.noteData.content = entryMarkup]
                        /\ pc' = "notes.insert"
            /\ obs' = [obs EXCEPT !.seen = NoteIds(notes)]
            /\ UNCHANGED ui
       ELSE StoreThrows
    /\ UNCHANGED <<storeVars, nextId, now, call, other, calVars, countVars>>

\* the merge: .update({ content: newContent }).eq('id', existingNote.id).single()
NotesUpdateReturns(ok) ==
    /\ pc = "notes.update"
    /\ IF ok /\ RowsById(notes, cap.existingNote) # {}
       THEN /\ notes' = SetNoteContent(notes, cap.existingNote, cap.newContent, now)
            /\ CaptureSaved([obs EXCEPT !.store = "ok", !.saved = cap.existingNote])
            /\ UNCHANGED cap
       ELSE StoreThrows /\ UNCHANGED notes
    /\ UNCHANGED <<tasks, events, transactions, media, gcal, nextId, now, call, other,
                   calVars, countVars>>

\* a new note: .insert(note)
NotesInsertReturns(ok) ==
    /\ pc = "notes.insert"
    /\ IF ok
       THEN /\ notes' = notes \cup {NoteRow(nextId, cap.noteData, now)}
            /\ nextId' = nextId + 1
            /\ CaptureSaved([obs EXCEPT !.store = "ok", !.saved = nextId])
            /\ UNCHANGED cap
       ELSE StoreThrows /\ UNCHANGED <<notes, nextId>>
    /\ UNCHANGED <<tasks, events, transactions, media, gcal, now, call, other, calVars,
                   countVars>>

(* The user and the timers of CaptureBox *)

\* the text input's onChange; the input is disabled while loading
SetInput(text) ==
    /\ ~ui.loading
    /\ ui.input # text
    /\ ui' = [ui EXCEPT !.input = text]
    /\ UNCHANGED <<pc, cap, storeVars, nextId, now, call, other, calVars, obs, countVars>>

\* handlePhotoChange; the Add Photo button is disabled while loading or uploading
HandlePhotoChange(file) ==
    /\ ~(ui.loading \/ ui.photoUploading)
    /\ ui' = IF ~file.image THEN ShowNotice(ui, "not an image", "error")
             ELSE IF file.sizeMB > MAX_PHOTO_SIZE_MB
             THEN ShowNotice(ui, "too large", "error")
             ELSE [ui EXCEPT !.photoFile = 1]
    /\ ui' # ui
    /\ UNCHANGED <<pc, cap, storeVars, nextId, now, call, other, calVars, obs, countVars>>

\* clearPhotoSelection from the X of the preview, disabled while uploading
ClearPhotoSelection ==
    /\ ui.photoFile # None
    /\ ~ui.photoUploading
    /\ ui' = [ui EXCEPT !.photoFile = None, !.photoUploading = FALSE]
    /\ UNCHANGED <<pc, cap, storeVars, nextId, now, call, other, calVars, obs, countVars>>

\* setTimeout(() => setSuccess(false), 2500)
SuccessTimeout ==
    /\ ui.success
    /\ ui' = [ui EXCEPT !.success = FALSE]
    /\ UNCHANGED <<pc, cap, storeVars, nextId, now, call, other, calVars, obs, countVars>>

\* the notice's 4000 ms timer, or its X
NoticeCleared ==
    /\ ui.notice # NoNotice
    /\ ui' = [ui EXCEPT !.notice = NoNotice]
    /\ UNCHANGED <<pc, cap, storeVars, nextId, now, call, other, calVars, obs, countVars>>

----------------------------------------------------------------------------
(* Pull: syncFromGoogleCalendar.  The Calendar page runs the one of         *)
(* google-calendar.ts, the GoogleCalendarSync card the one of calendar.ts.  *)

NoRemote == [id |-> None, timed |-> FALSE, start |-> NaT, end |-> NaT, updated |-> NaT]

NoSync == [variant |-> "none", items |-> {}, todo |-> {}, localEvents |-> {},
           current |-> NoRemote, existing |-> None, newEvent |-> None,
           created |-> {}, overwrote |-> {}, result |-> "none"]

\* a loop without the continue of line 89
IsAllDayIgnored(gcalEvent) == FALSE

\* line 88: an all-day event has start.date and end.date, no dateTime
IsAllDay(gcalEvent) == ~gcalEvent.timed

\* line 92: localEvents.find((e) => e.googleEventId === gcalEvent.id); getAll
\* orders by start_time, so find meets a row of the least start_time first
Existing(gcalEvent, localEvents) ==
    LET refs == {e \in localEvents : e.google_event_id = gcalEvent.id}
    IN {e \in refs : \A f \in refs : e.start_time <= f.start_time}

\* the comparison of line 113 with >= for >
RemoteIsNotOlder(gcalEvent, existingEvent) ==
    gcalEvent.updated # NaT /\ gcalEvent.updated >= existingEvent.updated_at

\* lines 112-113: new Date(gcalEvent.updated || '') > existingEvent.updatedAt;
\* without `updated` the Date is invalid and the comparison false
RemoteIsNewer(gcalEvent, existingEvent) ==
    gcalEvent.updated # NaT /\ gcalEvent.updated > existingEvent.updated_at

\* the events of the response on which the loop awaits a store call
Actionable(todo, localEvents) ==
    {g \in todo :
        /\ ~IsAllDay(g)
        /\ \/ Existing(g, localEvents) = {}
           \/ \E e \in Existing(g, localEvents) : RemoteIsNewer(g, e)}

\* orderBy=startTime (lines 79-83): the loop meets the earliest of them first
Earliest(gcalEvents) ==
    {g \in gcalEvents : \A h \in gcalEvents : g.start <= h.start}

\* lines 114-120: the fields an update from the remote event writes
Overwritten(table, id, gcalEvent, t) ==
    {IF r.id = id
     THEN Touch([r EXCEPT !.start_time = gcalEvent.start,
                          !.end_time = gcalEvent.end], t)
     ELSE r : r \in table}

\* the loop, from the end of one store call to the next await or to the end
SyncContinue(s) ==
    LET act == Actionable(s.todo, s.localEvents)
    IN IF act = {}
       THEN /\ syncPc' = "idle"
            /\ sync' = [s EXCEPT !.todo = {}, !.result = "done"]
       ELSE \E g \in Earliest(act) :
              IF Existing(g, s.localEvents) = {}
              THEN /\ syncPc' = "events.create"
                   /\ sync' = [s EXCEPT !.todo = @ \ {g}, !.current = g]
              ELSE \E e \in Existing(g, s.localEvents) :
                     /\ RemoteIsNewer(g, e)
                     /\ syncPc' = "events.overwrite"
                     /\ sync' = [s EXCEPT !.todo = @ \ {g}, !.current = g,
                                          !.existing = e.id]

\* a throw anywhere in syncFromGoogleCalendar: rethrown, handleSync logs it
SyncThrows ==
    /\ syncPc' = "idle"
    /\ sync' = [sync EXCEPT !.result = "threw"]

\* Calendar.handleSync up to the GET of googleCalendarRequest
CalendarHandleSync ==
    /\ syncPc = "idle"
    /\ nSyncs < MaxSyncs /\ Started < MaxStarted
    /\ nSyncs' = nSyncs + 1
    /\ syncPc' = "events.list"
    /\ sync' = [NoSync EXCEPT !.variant = "google-calendar"]
    /\ UNCHANGED <<ui, pc, cap, storeVars, nextId, now, call, other, delPc, del, obs,
                   nSubmits, nDeletes, nRemote>>

\* GoogleCalendarSync.handleSync: calendar.ts returns at once when gapi is not
\* signed in, else awaits gapi.client.calendar.events.list
GapiHandleSync(signedIn) ==
    /\ syncPc = "idle"
    /\ nSyncs < MaxSyncs /\ Started < MaxStarted
    /\ nSyncs' = nSyncs + 1
    /\ IF signedIn
       THEN /\ syncPc' = "events.list"
            /\ sync' = [NoSync EXCEPT !.variant = "gapi"]
       ELSE /\ syncPc' = "idle"
            /\ sync' = [NoSync EXCEPT !.variant = "gapi", !.result = "not signed in"]
    /\ UNCHANGED <<ui, pc, cap, storeVars, nextId, now, call, other, delPc, del, obs,
                   nSubmits, nDeletes, nRemote>>

\* the request throws, or the list returns the events of the calendar (all of
\* them end after the timeMin of the query)
ListReturns(token, apiOk, items) ==
    /\ syncPc = "events.list"
    /\ LET threw == IF sync.variant = "gapi" THEN ~apiOk
                    ELSE GoogleCalendarRequest(token, apiOk).threw
       IN IF threw
          THEN SyncThrows
          ELSE /\ syncPc' = "events.getAll"
               /\ sync' = [sync EXCEPT !.items = items, !.todo = items]
    /\ UNCHANGED <<ui, pc, cap, storeVars, nextId, now, call, other, delPc, del, obs,
                   countVars>>

\* storage.events.getAll returns the rows, or throws
GetAllReturns(ok) ==
    /\ syncPc = "events.getAll"
    /\ IF ok THEN SyncContinue([sync EXCEPT !.localEvents = events]) ELSE SyncThrows
    /\ UNCHANGED <<ui, pc, cap, storeVars, nextId, now, call, other, delPc, del, obs,
                   countVars>>

\* lines 96-104: storage.events.create for a remote event no row references;
\* google-calendar.ts then awaits the update that sets googleEventId,
\* calendar.ts goes on with the loop
SyncCreateReturns(ok) ==
    /\ syncPc = "events.create"
    /\ IF ok
       THEN /\ events' = events \cup
                   {EventRow(nextId, [startTime |-> sync.current.start,
                                      endTime   |-> sync.current.end], now)}
            /\ nextId' = nextId + 1
            /\ LET s == [sync EXCEPT
                            !.newEvent = nextId,
                            !.created = @ \cup {[gid |-> sync.current.id,
                                                 id  |-> nextId]}]
               IN IF sync.variant = "google-calendar"
                  THEN syncPc' = "events.update" /\ sync' = s
                  ELSE SyncContinue(s)
       ELSE SyncThrows /\ UNCHANGED <<events, nextId>>
    /\ UNCHANGED <<ui, pc, cap, tasks, notes, transactions, media, gcal, now, call, other, delPc,
                   del, obs, countVars>>

\* lines 107-109: storage.events.update(newEvent.id, { googleEventId })
SyncLinkReturns(ok) ==
    /\ syncPc = "events.update"
    /\ IF ok /\ RowsById(events, sync.newEvent) # {}
       THEN /\ events' = SetGoogleEventId(events, sync.newEvent, sync.current.id, now)
            /\ SyncContinue(sync)
       ELSE SyncThrows /\ UNCHANGED events
    /\ UNCHANGED <<ui, pc, cap, tasks, notes, transactions, media, gcal, nextId, now, call, other,
                   delPc, del, obs, countVars>>

\* lines 114-120: storage.events.update(existingEvent.id, the remote fields)
SyncOverwriteReturns(ok) ==
    /\ syncPc = "events.overwrite"
    /\ IF ok /\ RowsById(events, sync.existing) # {}
       THEN /\ events' = Overwritten(events, sync.existing, sync.current, now)
            /\ SyncContinue([sync EXCEPT
                               !.overwrote = @ \cup {[gid |-> sync.current.id,
                                                      id  |-> sync.existing]}])
       ELSE SyncThrows /\ UNCHANGED events
    /\ UNCHANGED <<ui, pc, cap, tasks, notes, transactions, media, gcal, nextId, now, call, other,
                   delPc, del, obs, countVars>>

----------------------------------------------------------------------------
(* Calendar.handleDelete *)

NoDel == [id |-> None, googleEventId |-> None, token |-> "none", remote |-> "none",
          local |-> "none",
          result |-> "none"]

\* the trash button of a listed event, up to await storage.events.getById(id)
HandleDelete(id) ==
    /\ delPc = "idle"
    /\ nDeletes < MaxDeletes /\ Started < MaxStarted
    /\ nDeletes' = nDeletes + 1
    /\ delPc' = "events.getById"
    /\ del' = [NoDel EXCEPT !.id = id]
    /\ UNCHANGED <<ui, pc, cap, storeVars, nextId, now, call, other, syncPc, sync, obs,
                   nSubmits, nSyncs, nRemote>>

\* getById returns the row or undefined, or throws (the outer catch logs it);
\* a row with a googleEventId goes to deleteFromGoogleCalendar first
GetByIdReturns(ok) ==
    /\ delPc = "events.getById"
    /\ IF ok
       THEN LET found == RowsById(events, del.id)
                gid   == IF found = {} THEN None
                         ELSE (CHOOSE e \in found : TRUE).google_event_id
            IN /\ del' = [del EXCEPT !.googleEventId = gid]
               /\ delPc' = IF gid # None THEN "deleteFromGoogleCalendar"
                           ELSE "events.delete"
       ELSE /\ del' = [del EXCEPT !.result = "threw"]
            /\ delPc' = "idle"
    /\ UNCHANGED <<ui, pc, cap, storeVars, nextId, now, call, other, syncPc, sync, obs,
                   countVars>>

\* a handleDelete without the inner try: a throw of deleteFromGoogleCalendar
\* reaches the outer catch
RemoteDeleteAborts(token, apiOk) ==
    /\ delPc = "deleteFromGoogleCalendar"
    /\ LET there == \E g \in gcal : g.id = del.googleEventId
           res   == DeleteFromGoogleCalendar(del.googleEventId, token, apiOk /\ there)
       IN /\ gcal' = IF res.threw THEN gcal
                     ELSE {g \in gcal : g.id # del.googleEventId}
          /\ del' = [del EXCEPT !.token = token,
                                !.remote = IF res.threw THEN "threw" ELSE "deleted",
                                !.result = IF res.threw THEN "threw" ELSE @]
          /\ delPc' = IF res.threw THEN "idle" ELSE "events.delete"
    /\ UNCHANGED <<ui, pc, cap, tableVars, media, nextId, now, call, other, syncPc, sync, obs,
                   countVars>>

\* deleteFromGoogleCalendar returns or throws (also when Google no longer has
\* the event); the throw is caught and logged, lines 52-55
RemoteDeleteReturns(token, apiOk) ==
    /\ delPc = "deleteFromGoogleCalendar"
    /\ LET there == \E g \in gcal : g.id = del.googleEventId
           res   == DeleteFromGoogleCalendar(del.googleEventId, token, apiOk /\ there)
       IN /\ gcal' = IF res.threw THEN gcal
                     ELSE {g \in gcal : g.id # del.googleEventId}
          /\ del' = [del EXCEPT !.token = token,
                                !.remote = IF res.threw THEN "threw"
                                           ELSE IF res.skipped THEN "skipped"
                                           ELSE "deleted"]
    /\ delPc' = "events.delete"
    /\ UNCHANGED <<ui, pc, cap, tableVars, media, nextId, now, call, other, syncPc, sync,
                   obs, countVars>>

\* storage.events.delete(id) returns or throws; then loadEvents
LocalDeleteReturns(ok) ==
    /\ delPc = "events.delete"
    /\ events' = IF ok THEN {e \in events : e.id # del.id} ELSE events
    /\ del' = [del EXCEPT !.local = IF ok THEN "deleted" ELSE "threw",
                          !.result = IF ok THEN "done" ELSE "threw"]
    /\ delPc' = "idle"
    /\ UNCHANGED <<ui, pc, cap, tasks, notes, transactions, media, gcal, nextId, now, call, other,
                   syncPc, sync, obs, countVars>>

----------------------------------------------------------------------------
(* The world around: the user's own edits in Google Calendar, and time *)

\* timed with and without an `updated` stamp, and all-day
RemoteKinds == {[timed |-> TRUE, stamped |-> TRUE], [timed |-> TRUE, stamped |-> FALSE],
                [timed |-> FALSE, stamped |-> TRUE]}

\* an event made in Google Calendar itself: timed or all-day, with or without
\* an `updated` stamp in the list response
RemoteAdd(timed, start, end, stamped) ==
    /\ nRemote < MaxRemote /\ Started < MaxStarted
    /\ nRemote' = nRemote + 1
    /\ gcal' = gcal \cup {[id |-> nextId, timed |-> timed, start |-> start,
                           end |-> end, updated |-> IF stamped THEN now ELSE NaT]}
    /\ nextId' = nextId + 1
    /\ UNCHANGED <<ui, pc, cap, tableVars, media, now, call, other, calVars, obs,
                   nSubmits, nSyncs, nDeletes>>

\* an event moved in Google Calendar itself
RemoteEdit(g, start) ==
    /\ nRemote < MaxRemote /\ Started < MaxStarted
    /\ g \in gcal
    /\ nRemote' = nRemote + 1
    /\ gcal' = (gcal \ {g}) \cup {[g EXCEPT !.start = start, !.updated = now]}
    /\ UNCHANGED <<ui, pc, cap, tableVars, media, nextId, now, call, other, calVars, obs,
                   nSubmits, nSyncs, nDeletes>>

Tick ==
    /\ now < MaxTime /\ Started < MaxStarted
    /\ now' = now + 1
    /\ UNCHANGED <<ui, pc, cap, storeVars, nextId, other, call, calVars, obs, countVars>>

----------------------------------------------------------------------------
(* Direct calls of the library functions *)

NoCall == [n |-> 0, fn |-> "none"]

RemoteIds(calendar) == {g.id : g \in calendar}

\* Google answers a PUT for an event it does not hold with 404
RemoteAccepts(event, apiOk) ==
    apiOk /\ (event.google_event_id # None => event.google_event_id \in RemoteIds(gcal))

\* what a push that has returned res leaves behind
PushApplied(e, res, fn) ==
    /\ gcal' = IF res.threw \/ res.skipped THEN gcal ELSE Pushed(gcal, e, res, now)
    /\ nextId' = IF res.threw \/ res.skipped \/ res.method = "PUT" THEN nextId
                 ELSE nextId + 1
    /\ call' = [n |-> call.n + 1, fn |-> fn, event |-> e, res |-> res]

\* pushToGoogleCalendar(event) of google-calendar.ts, for a stored event
PushCall(e, token, apiOk) ==
    /\ call.n < MaxCalls
    /\ e \in events
    /\ PushApplied(e, PushToGoogleCalendar(e, token, RemoteAccepts(e, apiOk), nextId),
                   "push")
    /\ UNCHANGED <<ui, pc, cap, tableVars, media, now, other, calVars, obs, countVars>>

\* pushToGoogleCalendar(event) of calendar.ts, for a stored event
GapiPushCall(e, signedIn, apiOk) ==
    /\ call.n < MaxCalls
    /\ e \in events
    /\ PushApplied(e, GapiPushToGoogleCalendar(e, signedIn, RemoteAccepts(e, apiOk),
                                               nextId), "push")
    /\ UNCHANGED <<ui, pc, cap, tableVars, media, now, other, calVars, obs, countVars>>

\* storage.events.update(event.id, { googleEventId }) with the id a push returned
LinkCall ==
    /\ call.fn = "push"
    /\ call.res.id # None
    /\ events' = SetGoogleEventId(events, call.event.id, call.res.id, now)
    /\ call' = [call EXCEPT !.fn = "link"]
    /\ UNCHANGED <<ui, pc, cap, tasks, notes, transactions, media, gcal, nextId, now,
                   other, calVars, obs, countVars>>

\* storage.tasks.delete, storage.notes.delete, storage.transactions.delete
DeleteTables == {"tasks", "notes", "transactions"}

TableRows(table) ==
    IF table = "tasks" THEN tasks ELSE IF table = "notes" THEN notes ELSE transactions

\* a delete(id) is running, between two of its awaits
Deleting == call.fn = "delete" /\ call.pc # "done"

\* supabase-storage.ts 96, 286, 397: delete(id) starts with the photo lookup
StorageDelete(table, id) ==
    /\ call.n < MaxCalls
    /\ ~Deleting
    /\ call' = [n |-> call.n + 1, fn |-> "delete", pc |-> "getPhoto", table |-> table,
                id |-> id, photo |-> None, removal |-> "none", row |-> "none"]
    /\ UNCHANGED <<ui, pc, cap, tableVars, media, gcal, nextId, now, other, calVars, obs,
                   countVars>>

\* getTaskPhoto, getNotePhoto, getTransactionPhoto: the row's photo_url, null
\* when there is no such row; any other error of the lookup is thrown
GetPhotoReturns(ok) ==
    /\ Deleting /\ call.pc = "getPhoto"
    /\ LET existing == RowsById(TableRows(call.table), call.id)
           url      == IF existing = {} THEN None ELSE (CHOOSE r \in existing : TRUE).photo_url
       IN call' = IF ~ok THEN [call EXCEPT !.pc = "done", !.row = "lookup threw"]
                  ELSE IF url # None THEN [call EXCEPT !.pc = "safeDeletePhoto", !.photo = url]
                  ELSE [call EXCEPT !.pc = "delete"]
    /\ UNCHANGED <<ui, pc, cap, tableVars, media, gcal, nextId, now, other, calVars, obs,
                   countVars>>

\* a photo removal whose error ends the delete
SafeDeletePhotoRethrows(ok) ==
    /\ Deleting /\ call.pc = "safeDeletePhoto"
    /\ media' = IF ok THEN media \ {call.photo} ELSE media
    /\ call' = IF ok THEN [call EXCEPT !.pc = "delete", !.removal = "removed"]
               ELSE [call EXCEPT !.pc = "done", !.removal = "threw"]
    /\ UNCHANGED <<ui, pc, cap, tableVars, gcal, nextId, now, other, calVars, obs, countVars>>

\* safeDeletePhoto, 518-525: deleteCapturePhoto removes the object (an object
\* already gone is no error) or throws; the throw is caught and logged
SafeDeletePhotoReturns(ok) ==
    /\ Deleting /\ call.pc = "safeDeletePhoto"
    /\ media' = IF ok THEN media \ {call.photo} ELSE media
    /\ call' = [call EXCEPT !.pc = "delete", !.removal = IF ok THEN "removed" ELSE "threw"]
    /\ UNCHANGED <<ui, pc, cap, tableVars, gcal, nextId, now, other, calVars, obs, countVars>>

\* supabase.from(table).delete().eq('id', id): the row goes, or the error is
\* thrown
RowDeleteReturns(ok) ==
    /\ Deleting /\ call.pc = "delete"
    /\ LET rest(rows) == IF ok THEN {r \in rows : r.id # call.id} ELSE rows
       IN /\ tasks' = IF call.table = "tasks" THEN rest(tasks) ELSE tasks
          /\ notes' = IF call.table = "notes" THEN rest(notes) ELSE notes
          /\ transactions' = IF call.table = "transactions" THEN rest(transactions)
                             ELSE transactions
    /\ call' = [call EXCEPT !.pc = "done", !.row = IF ok THEN "deleted" ELSE "threw"]
    /\ UNCHANGED <<ui, pc, cap, events, media, gcal, nextId, now, other, calVars, obs,
                   countVars>>

\* LocalStorageService.notes.create, part_004 line 172: the rows whose trimmed
\* title equals the bucket title ignoring case; find takes the first
LocalExisting(table, bucketTitle) ==
    {n \in table : ToLowerCase(Trim(n.title)) = ToLowerCase(bucketTitle)}

\* LocalStorageService.notes.create, existing being the row find returned (a
\* set of one row, or empty): the note it appends to, or None, and the title
\* and content the note has afterwards
LocalNotesCreate(data, existing) ==
    LET mergeInfo   == ExtractMergeInfo(data)
        entryMarkup == EntryMarkup(mergeInfo.entry)
        n           == CHOOSE r \in existing : TRUE
    IN IF mergeInfo.found /\ existing # {}
       THEN [decision |-> "AppendTo", id |-> n.id, title |-> n.title,
             content |-> MergedContent(n.content, entryMarkup)]
       ELSE IF mergeInfo.found
       THEN [decision |-> "CreateNew", id |-> None, title |-> mergeInfo.bucketTitle,
             content |-> entryMarkup]
       ELSE [decision |-> "CreateNew", id |-> None,
             title |-> IF data.title # <<>> THEN data.title
                       ELSE Substring0(data.content, TITLE_CHARS),
             content |-> data.content]

\* the capture in flight handed to LocalStorageService.notes.create, on the
\* table SupabaseStorageService.notes.create has just read
LocalNotesCreateCall ==
    /\ call.n < MaxCalls
    /\ pc \in {"notes.update", "notes.insert"}
    /\ LET found == LocalExisting(notes, ExtractMergeInfo(cap.data.data).bucketTitle)
       IN \E existing \in IF found = {} THEN {{}} ELSE {{n} : n \in found} :
             call' = [n |-> call.n + 1, fn |-> "local.notes.create", capture |-> nSubmits,
                      res |-> LocalNotesCreate(cap.data.data, existing)]
    /\ UNCHANGED <<ui, pc, cap, storeVars, nextId, now, other, calVars, obs, countVars>>

----------------------------------------------------------------------------
(* A second session of the same user (another tab or device): one call of   *)
(* storage.notes.create, running the same code against the same table.      *)

NoOther == [pc |-> "idle", noteData |-> [title |-> <<>>, content |-> <<>>, photoUrl |-> None],
            mergeInfo |-> [found |-> FALSE], existingNote |-> None,
            baseContent |-> <<>>, newContent |-> <<>>,
            seen |-> {}, saved |-> None, result |-> "none"]

OtherThrows == other' = [other EXCEPT !.pc = "done", !.result = "failed"]

\* notes.create is called: extractMergeInfo, then the lookup or the insert
OtherNotesCreate(noteData) ==
    /\ other.pc = "idle"
    /\ LET mergeInfo == ExtractMergeInfo(noteData)
       IN other' = [other EXCEPT
                      !.noteData = [title |-> noteData.title, content |-> noteData.content,
                                    photoUrl |-> None],
                      !.mergeInfo = mergeInfo,
                      !.pc = IF mergeInfo.found THEN "notes.select" ELSE "notes.insert"]
    /\ UNCHANGED <<ui, pc, cap, storeVars, nextId, now, call, calVars, obs, countVars>>

\* the .ilike('title', bucketTitle).limit(1) select returns
OtherSelectReturns(ok) ==
    /\ other.pc = "notes.select"
    /\ IF ok
       THEN LET matching    == {n \in notes :
                                    ILike(n.title, other.mergeInfo.bucketTitle)}
                entryMarkup == EntryMarkup(other.mergeInfo.entry)
            IN IF matching # {}
               THEN \E existingNote \in matching :
                      other' = [other EXCEPT
                                  !.existingNote = existingNote.id,
                                  !.baseContent = existingNote.content,
                                  !.newContent = MergedContent(existingNote.content,
                                                               entryMarkup),
                                  !.seen = NoteIds(notes),
                                  !.pc = "notes.update"]
               ELSE other' = [other EXCEPT
                                !.noteData.title = other.mergeInfo.bucketTitle,
                                !.noteData.content = entryMarkup,
                                !.seen = NoteIds(notes),
                                !.pc = "notes.insert"]
       ELSE OtherThrows
    /\ UNCHANGED <<ui, pc, cap, storeVars, nextId, now, call, calVars, obs, countVars>>

\* the merge: .update({ content: newContent }).eq('id', existingNote.id).single()
OtherUpdateReturns(ok) ==
    /\ other.pc = "notes.update"
    /\ IF ok /\ RowsById(notes, other.existingNote) # {}
       THEN /\ notes' = SetNoteContent(notes, other.existingNote, other.newContent, now)
            /\ other' = [other EXCEPT !.pc = "done", !.result = "success",
                                      !.saved = other.existingNote]
       ELSE OtherThrows /\ UNCHANGED notes
    /\ UNCHANGED <<ui, pc, cap, tasks, events, transactions, media, gcal, nextId, now, call,
                   calVars, obs, countVars>>

\* a new note: .insert(note)
OtherInsertReturns(ok) ==
    /\ other.pc = "notes.insert"
    /\ IF ok
       THEN /\ notes' = notes \cup {NoteRow(nextId, other.noteData, now)}
            /\ nextId' = nextId + 1
            /\ other' = [other EXCEPT !.pc = "done", !.result = "success",
                                      !.saved = nextId]
       ELSE OtherThrows /\ UNCHANGED <<notes, nextId>>
    /\ UNCHANGED <<ui, pc, cap, tasks, events, transactions, media, gcal, now, call,
                   calVars, obs, countVars>>

----------------------------------------------------------------------------
(* The capture box alone *)

\* the notes table when the page loads: empty, or holding the bucket note an
\* earlier capture of "g: m" created
InitialNotes ==
    {{}, {NoteRow(1, [title |-> <<"g">>, content |-> EntryMarkup(<<"m">>),
                      photoUrl |-> None], 0)}}

Init ==
    /\ ui = [input |-> <<>>, loading |-> FALSE, success |-> FALSE, parsed |-> NoParsed,
             photoFile |-> None, photoUploading |-> FALSE, notice |-> NoNotice]
    /\ pc = "idle"
    /\ cap = NoCap
    /\ tasks = {} /\ events = {} /\ transactions = {}
    /\ notes \in InitialNotes
    /\ media = {} /\ gcal = {}
    /\ nextId = 2
    /\ now = 0
    /\ syncPc = "idle" /\ sync = NoSync
    /\ delPc = "idle" /\ del = NoDel
    /\ other = NoOther
    /\ call = NoCall
    /\ obs = NewObs
    /\ nSubmits = 0 /\ nSyncs = 0 /\ nDeletes = 0 /\ nRemote = 0

Capture(responses) ==
    \/ HandleSubmitRejected
    \/ HandleSubmit
    \/ ParseCaptureThrows
    \/ \E r \in responses : ParseCaptureReturns(r)
    \/ \E ok \in BOOLEAN : UploadCapturePhotoReturns(ok)
    \/ \E ok \in BOOLEAN : TasksCreateReturns(ok)
    \/ \E ok \in BOOLEAN : TransactionsCreateReturns(ok)
    \/ \E ok \in BOOLEAN : EventsCreateReturns(ok)
    \/ \E token \in Tokens, apiOk \in BOOLEAN : PushReturns(token, apiOk)
    \/ \E ok \in BOOLEAN : LinkReturns(ok)
    \/ \E ok \in BOOLEAN : NotesSelectReturns(ok)
    \/ \E ok \in BOOLEAN : NotesUpdateReturns(ok)
    \/ \E ok \in BOOLEAN : NotesInsertReturns(ok)

User ==
    \/ \E text \in Inputs : SetInput(text)
    \/ \E file \in PhotoFiles : HandlePhotoChange(file)
    \/ ClearPhotoSelection
    \/ SuccessTimeout
    \/ NoticeCleared

Next == Capture(Responses) \/ User

Spec == Init /\ [][Next]_vars

----------------------------------------------------------------------------
(* Properties of the capture box *)

\* C1: a capture that is refused for its empty input, or whose classification
\* throws, has no side effect: its steps change no table, store no photo and
\* push nothing to the calendar, no store, upload or push call was made, and
\* success is not reported.
NoSideEffectsOnFatal ==
    [][/\ nSubmits' # nSubmits => UNCHANGED storeVars
       /\ (nSubmits' # nSubmits /\ Trim(ui.input) = <<>>) => UNCHANGED <<ui, pc, cap>>
       /\ (obs'.fatal = "classification" /\ obs.fatal = "none") =>
             /\ UNCHANGED storeVars
             /\ ~ui'.success
             /\ pc' = "idle"
             /\ obs'.upload = "none" /\ obs'.store = "none" /\ ~obs'.push.called
             /\ obs'.saved = None]_vars

\* a classification failed while a photo was selected
ClassificationFailed ==
    obs.fatal = "classification" /\ cap.file # None /\ ~ui.loading

\* the row a capture saved, in any table it can be in
SavedRows(table) == {r \in table : r.id = obs.saved}

\* C2: when the photo upload of a task, note, expense or income capture fails,
\* the user is warned, the capture goes on to the store, and unless the store
\* itself fails the capture succeeds with a saved row; a row the capture
\* created has no photo URL.
AttachmentFailureTolerated ==
    obs.upload = "failed" =>
        /\ cap.data.type \in PhotoTypes
        /\ "upload failed" \in obs.notices
        /\ obs.fatal \in {"none", "store"}
        /\ (pc = "idle" /\ obs.fatal = "none") => obs.result = "success"
        /\ obs.result = "success" =>
              /\ SavedRows(tasks) \cup SavedRows(transactions) \cup SavedRows(notes) # {}
              /\ cap.existingNote = None =>
                    /\ \A r \in SavedRows(tasks) : r.photo_url = None
                    /\ \A r \in SavedRows(transactions) : r.photo_url = None
                    /\ \A r \in SavedRows(notes) : r.photo_url = None

\* a capture succeeded after its upload failed
SavedWithoutPhoto ==
    obs.upload = "failed" /\ obs.result = "success" /\ obs.saved # None

\* a notice other than the information that events take no photos
WarningShown == \E n \in obs.notices : n # "photos unsupported"

\* C3: when the push of an event capture fails or finds no authentication, the
\* event is stored without external id and the capture reports success with a
\* warning.
PushFailureWarned ==
    (obs.push.called /\ obs.push.threw) =>
        /\ obs.result = "success"
        /\ \A e \in SavedRows(events) : e.google_event_id = None
        /\ WarningShown

\* a capture succeeded after its push threw, and no warning was shown
PushFailedSilently ==
    obs.push.called /\ obs.push.threw /\ obs.result = "success" /\ ~WarningShown

\* C5: every event a capture stored ends after it starts.
EventsEndAfterStart ==
    \A e \in events : e.end_time > e.start_time

\* a stored event that ends before it starts
InvertedEventStored == \E e \in events : e.end_time < e.start_time

\* C6: a response of an unknown type is a classification error, and a capture
\* reports success only after it stored or updated a row.
UnknownTypeRejected ==
    /\ (obs.parse = "ok" /\ cap.data.type \notin KnownTypes) =>
          obs.fatal = "classification"
    /\ obs.result = "success" => obs.saved # None

\* a capture of an unknown type reported success and stored nothing
SucceededWithNothingSaved ==
    /\ cap.data.type \notin KnownTypes \cup {"null"}
    /\ obs.result = "success" /\ ui.success
    /\ obs.saved = None

----------------------------------------------------------------------------
(* The calendar: event captures, pulls, deletions and remote edits at once *)

InitCalendar ==
    /\ ui = [input |-> <<"x">>, loading |-> FALSE, success |-> FALSE,
             parsed |-> NoParsed, photoFile |-> None, photoUploading |-> FALSE,
             notice |-> NoNotice]
    /\ pc = "idle"
    /\ cap = NoCap
    /\ tasks = {} /\ events = {} /\ transactions = {} /\ notes = {}
    /\ media = {} /\ gcal = {}
    /\ nextId = 1
    /\ now = 0
    /\ syncPc = "idle" /\ sync = NoSync
    /\ delPc = "idle" /\ del = NoDel
    /\ other = NoOther
    /\ call = NoCall
    /\ obs = NewObs
    /\ nSubmits = 0 /\ nSyncs = 0 /\ nDeletes = 0 /\ nRemote = 0

\* "Meeting from 1 to 2"
MeetingResponses == {r \in ValidEventResponses : r.data.startTime = "T1" /\ r.data.endTime = "T2"}

EventCapture(responses) ==
    \/ HandleSubmit
    \/ \E r \in responses : ParseCaptureReturns(r)
    \/ \E ok \in BOOLEAN : EventsCreateReturns(ok)
    \/ \E token \in Tokens, apiOk \in BOOLEAN : PushReturns(token, apiOk)
    \/ \E ok \in BOOLEAN : LinkReturns(ok)
    \/ \E text \in {<<"x">>} : SetInput(text)

Pull ==
    \/ CalendarHandleSync
    \/ \E signedIn \in BOOLEAN : GapiHandleSync(signedIn)
    \/ \E token \in Tokens, apiOk \in BOOLEAN : ListReturns(token, apiOk, gcal)
    \/ \E ok \in BOOLEAN : GetAllReturns(ok)
    \/ \E ok \in BOOLEAN : SyncCreateReturns(ok)
    \/ \E ok \in BOOLEAN : SyncLinkReturns(ok)
    \/ \E ok \in BOOLEAN : SyncOverwriteReturns(ok)

Delete ==
    \/ \E e \in events : HandleDelete(e.id)
    \/ \E ok \in BOOLEAN : GetByIdReturns(ok)
    \/ \E token \in Tokens, apiOk \in BOOLEAN : RemoteDeleteReturns(token, apiOk)
    \/ \E ok \in BOOLEAN : LocalDeleteReturns(ok)

World ==
    \/ \E made \in RemoteKinds : RemoteAdd(made.timed, 1, 2, made.stamped)
    \/ \E g \in gcal : RemoteEdit(g, 2)
    \/ Tick

NextCalendar == EventCapture(MeetingResponses) \/ Pull \/ World

SpecCalendar == InitCalendar /\ [][NextCalendar]_vars
----------------------------------------------------------------------------
(* Properties of the pull *)

\* the step is one of the pull
SyncStep == <<syncPc, sync>>' # <<syncPc, sync>>

\* the step is the link of a capture whose push returned an external id
LinkAfterPush(e) ==
    /\ pc = "events.update"
    /\ obs.push.called /\ ~obs.push.threw
    /\ e.id = cap.createdEvent.id
    /\ e.google_event_id = cap.googleEventId

\* the step is the link of a pull, for the event it created from a remote one
LinkByPull(e) ==
    /\ syncPc = "events.update"
    /\ sync.variant = "google-calendar"
    /\ e.id = sync.newEvent
    /\ e.google_event_id = sync.current.id
    /\ [gid |-> sync.current.id, id |-> e.id] \in sync.created

\* the row had this external id before the step
Kept(e) == \E d \in events : d.id = e.id /\ d.google_event_id = e.google_event_id

\* C7, as the code has it: an event gets its external id only in the step that
\* follows a successful push of that event, or in the step of a pull that
\* links the event the pull created to the remote event it came from;
\* events.create and the overwrite of a pull set none.
LinkedOnlyByPushOrPull ==
    [][\A e \in events' :
          e.google_event_id # None => Kept(e) \/ LinkAfterPush(e) \/ LinkByPull(e)]_vars

\* C7, as stated: an event gets its external id only after a successful push
\* of that event; create, pull and update set none.
LinkedOnlyByPush ==
    [][\A e \in events' :
          e.google_event_id # None => Kept(e) \/ LinkAfterPush(e)]_vars

\* a pull linked the event it created
PullLinked ==
    \E c \in sync.created : \E e \in events : e.id = c.id /\ e.google_event_id = c.gid

\* what a pull created for a remote event
Made(g) == {c \in sync.created : c.gid = g.id}

\* the rows the pull read that reference a remote event
Referencing(g) == {e \in sync.localEvents : e.google_event_id = g.id}

\* C8: a pull that ends creates exactly one event, with the remote start and
\* end, for each timed event of the response that no row it read references;
\* for an all-day event, and for a referenced one, it creates none at any
\* time, and an all-day event overwrites nothing.
PullCreatesOnePerUnreferenced ==
    /\ \A c \in sync.created : \E g \in sync.items : g.id = c.gid
    /\ \A g \in sync.items :
          /\ Cardinality(Made(g)) <= 1
          /\ (~g.timed \/ Referencing(g) # {}) => Made(g) = {}
          /\ ~g.timed => \A o \in sync.overwrote : o.gid # g.id
          /\ (sync.result = "done" /\ g.timed /\ Referencing(g) = {}) =>
                Cardinality(Made(g)) = 1
          /\ \A c \in Made(g) :
                \E e \in events :
                   e.id = c.id /\ e.start_time = g.start /\ e.end_time = g.end

\* a pull ended that met an all-day event and created an event
PulledTimedAndAllDay ==
    /\ sync.result = "done"
    /\ sync.created # {}
    /\ \E g \in sync.items : ~g.timed

----------------------------------------------------------------------------
(* Deletions of captured events *)

NextDelete == EventCapture(ValidEventResponses) \/ Delete

SpecDelete == InitCalendar /\ [][NextDelete]_vars

----------------------------------------------------------------------------
(* Properties of the bridge *)

\* C4: without a token, or with an expired one, push and delete return the
\* signal "skipped", throw nothing and make no request.
UnauthenticatedIsSkipped ==
    /\ (obs.push.called /\ obs.push.token \in {"absent", "expired"}) =>
          obs.push.skipped /\ ~obs.push.threw /\ ~obs.push.fetched
    /\ (del.remote # "none" /\ del.token \in {"absent", "expired"}) =>
          del.remote = "skipped"

\* the deletion of a linked event found no token, and threw
UnauthenticatedThrew ==
    /\ del.googleEventId # None
    /\ del.token = "absent" /\ del.remote = "threw"

\* C10: a deletion of an event with an external id always goes on to the
\* deletion of the row, whether the external deletion succeeded, threw or was
\* skipped; once the store has deleted it the row is gone.
LocalDeletionNotBlocked ==
    /\ (delPc = "idle" /\ del.googleEventId # None) =>
          /\ del.remote \in {"deleted", "threw", "skipped"}
          /\ del.local \in {"deleted", "threw"}
    /\ del.local = "deleted" => \A e \in events : e.id # del.id

\* an event was deleted though its external deletion threw
DeletedDespiteRemoteError ==
    /\ delPc = "idle"
    /\ del.googleEventId # None
    /\ del.remote = "threw"
    /\ del.local = "deleted"

----------------------------------------------------------------------------
(* Note captures one after the other: the bucket merge of notes.create *)

MaxEntryLen == 2

EntryChars == {"m", "<", ">", "&"}

\* the entry texts of the captures
Entries == UNION {[1..n -> EntryChars] : n \in 1..MaxEntryLen}

\* "Groceries", "GROCERIES", "My Groceries" and two titles that hold a
\* character ILIKE reads as a wildcard
Buckets == {<<"g">>, <<"G">>, <<"m", "g">>, <<"%">>, <<"_">>}

\* the classifier's answer to "<bucket>: <entry>": a note without a title
BucketCapture(bucket, entry) ==
    [type |-> "note",
     data |-> [title |-> <<>>, content |-> bucket \o <<":", " ">> \o entry]]

\* a note of more than TITLE_CHARS characters without a separator
LongContent == [i \in 1..(TITLE_CHARS + 1) |-> IF i <= TITLE_CHARS THEN "p" ELSE "q"]

PlainCapture(content) == [type |-> "note", data |-> [title |-> <<>>, content |-> content]]

NoteCaptures ==
    {BucketCapture(b, <<"m">>) : b \in Buckets}
        \cup {BucketCapture(<<"g">>, e) : e \in Entries}
        \cup {PlainCapture(<<"p">>), PlainCapture(LongContent)}

\* the notes table before the captures: empty; the bucket note an earlier
\* capture of "g: m" created; a note whose title contains the bucket title; a
\* bucket note whose content was blanked
NotesBefore ==
    {{},
     {NoteRow(1, [title |-> <<"g">>, content |-> EntryMarkup(<<"m">>),
                  photoUrl |-> None], 0)},
     {NoteRow(1, [title |-> <<"m", "g">>, content |-> <<"p">>, photoUrl |-> None], 0)},
     {NoteRow(1, [title |-> <<"g">>, content |-> <<" ">>, photoUrl |-> None], 0)}}

InitNotes ==
    /\ ui = [input |-> <<"x">>, loading |-> FALSE, success |-> FALSE,
             parsed |-> NoParsed, photoFile |-> None, photoUploading |-> FALSE,
             notice |-> NoNotice]
    /\ pc = "idle"
    /\ cap = NoCap
    /\ tasks = {} /\ events = {} /\ transactions = {}
    /\ notes \in NotesBefore
    /\ media = {} /\ gcal = {}
    /\ nextId = 2
    /\ now = 0
    /\ syncPc = "idle" /\ sync = NoSync
    /\ delPc = "idle" /\ del = NoDel
    /\ other = NoOther
    /\ call = NoCall
    /\ obs = NewObs
    /\ nSubmits = 0 /\ nSyncs = 0 /\ nDeletes = 0 /\ nRemote = 0

NoteCapture(responses) ==
    \/ HandleSubmit
    \/ \E r \in responses : ParseCaptureReturns(r)
    \/ \E ok \in BOOLEAN : NotesSelectReturns(ok)
    \/ \E ok \in BOOLEAN : NotesUpdateReturns(ok)
    \/ \E ok \in BOOLEAN : NotesInsertReturns(ok)
    \/ \E text \in {<<"x">>} : SetInput(text)

NextNotes == NoteCapture(NoteCaptures)

SpecNotes == InitNotes /\ [][NextNotes]_vars

----------------------------------------------------------------------------
(* Properties of the bucket merge *)

EqualIgnoringCase(a, b) == ToLowerCase(a) = ToLowerCase(b)

\* the capture in flight matched the bucket pattern and its lookup has answered
MergeDecided == cap.mergeInfo.found /\ pc \in {"notes.update", "notes.insert"}

\* C11: a bucket capture is appended to an existing note exactly when some
\* existing note's title equals the bucket title ignoring case, and the note
\* it is appended to is such a note; otherwise a new note is created
BucketMatchIsExact ==
    MergeDecided =>
        /\ (pc = "notes.update") <=>
               (\E n \in notes : EqualIgnoringCase(n.title, cap.mergeInfo.bucketTitle))
        /\ pc = "notes.update" =>
               \A n \in RowsById(notes, cap.existingNote) :
                   EqualIgnoringCase(n.title, cap.mergeInfo.bucketTitle)

\* the capture "%: m" is about to be appended to the note titled "g"
WildcardBucketAppended ==
    /\ pc = "notes.update"
    /\ cap.mergeInfo.bucketTitle \in {<<"%">>, <<"_">>}
    /\ \E n \in RowsById(notes, cap.existingNote) : n.title = <<"g">>

IsPrefix(p, s) == Len(p) <= Len(s) /\ SubSeq(s, 1, Len(p)) = p

EndsWith(s, t) == Len(t) <= Len(s) /\ SubSeq(s, Len(s) - Len(t) + 1, Len(s)) = t

\* the last capture was appended to an existing note and reported success
Merged ==
    /\ obs.result = "success"
    /\ cap.existingNote # None
    /\ obs.saved = cap.existingNote

\* the list item the last capture rendered
RenderedEntry == <<"<div>", "bullet", " ">> \o EscapeHtml(cap.mergeInfo.entry) \o <<"</div>">>

\* C12, as stated: after a merge the content the note had before is a prefix
\* of its content, which ends with the new entry
PriorContentIsPrefix ==
    Merged =>
        \A n \in SavedRows(notes) :
            /\ IsPrefix(cap.baseContent, n.content)
            /\ EndsWith(n.content, RenderedEntry)

\* C12, amended: after a merge the note's content ends with the new entry, and
\* the content it had before is a prefix of it unless that content was blank,
\* in which case the content is the new entry alone
AppendKeepsPriorEntries ==
    Merged =>
        \A n \in SavedRows(notes) :
            /\ EndsWith(n.content, RenderedEntry)
            /\ IF Trim(cap.baseContent) = <<>>
               THEN n.content = RenderedEntry
               ELSE IsPrefix(cap.baseContent, n.content)

\* an entry was appended after the entry the note already held
AppendedAfterEntry ==
    /\ Merged
    /\ cap.baseContent = <<"<div>", "bullet", " ", "m", "</div>">>
    /\ \E n \in SavedRows(notes) :
           n.content = cap.baseContent \o <<"<br />">> \o RenderedEntry

\* the number of list items of a note's content
ListItems(content) == Cardinality({i \in 1..Len(content) : content[i] = "<div>"})

\* C13: a bucket capture made while a note titled with its bucket exists (as
\* after an earlier capture of the same text) creates no note, and its
\* successful merge adds one list item to the note without creating a note
MergeIsNotIdempotent ==
    [][/\ (pc = "notes.select" /\ pc' = "notes.insert") =>
              ~\E n \in notes : EqualIgnoringCase(n.title, cap.mergeInfo.bucketTitle)
       /\ (pc = "notes.update" /\ obs'.result = "success") =>
              /\ NoteIds(notes') = NoteIds(notes)
              /\ \A n \in RowsById(notes, cap.existingNote) :
                     \A n2 \in RowsById(notes', cap.existingNote) :
                         ListItems(n2.content) = ListItems(n.content) + 1]_vars

\* "g: m" was captured again: one note, titled "g", with two items "m"
SameEntryTwice ==
    /\ Merged
    /\ cap.data.data.content = <<"g", ":", " ", "m">>
    /\ Cardinality(notes) = 1
    /\ \E n \in notes :
           /\ n.title = <<"g">>
           /\ n.content = <<"<div>", "bullet", " ", "m", "</div>", "<br />",
                            "<div>", "bullet", " ", "m", "</div>">>

\* the notes that existed before the last successful capture
PriorNotes == IF cap.existingNote = None THEN notes \ SavedRows(notes) ELSE notes

\* C14: when a successful capture matched the bucket pattern and no note that
\* existed before it is titled with its bucket (ignoring case), it created a
\* note titled exactly with the bucket whose content is exactly the one
\* rendered entry
UnmatchedBucketCreatesNote ==
    (/\ obs.result = "success"
     /\ cap.mergeInfo.found
     /\ \A n \in PriorNotes : ~EqualIgnoringCase(n.title, cap.mergeInfo.bucketTitle))
        =>
        /\ cap.existingNote = None
        /\ SavedRows(notes) # {}
        /\ \A n \in SavedRows(notes) :
               /\ n.title = cap.mergeInfo.bucketTitle
               /\ n.content = RenderedEntry

\* a capture whose bucket no note is titled with succeeded without a new note
UnmatchedBucketMadeNoNote ==
    /\ Merged
    /\ \A n \in notes : ~EqualIgnoringCase(n.title, cap.mergeInfo.bucketTitle)

\* what does hold: a capture the lookup answered with no row creates the note
\* titled with the bucket that holds the one rendered entry
CreateNewMakesBucketNote ==
    (obs.result = "success" /\ cap.mergeInfo.found /\ cap.existingNote = None) =>
        /\ SavedRows(notes) # {}
        /\ \A n \in SavedRows(notes) :
               /\ n.title = cap.mergeInfo.bucketTitle
               /\ n.content = RenderedEntry

Escapes == {<<"&", "a", "m", "p", ";">>, <<"&", "l", "t", ";">>, <<"&", "g", "t", ";">>}

\* the text a browser shows for an escaped text; "?" where an '&' opens no escape
RECURSIVE Unescape(_)
Unescape(s) ==
    IF s = <<>> THEN <<>>
    ELSE IF Head(s) # "&" THEN <<Head(s)>> \o Unescape(Tail(s))
    ELSE IF IsPrefix(<<"&", "a", "m", "p", ";">>, s)
         THEN <<"&">> \o Unescape(SubSeq(s, 6, Len(s)))
    ELSE IF IsPrefix(<<"&", "l", "t", ";">>, s)
         THEN <<"<">> \o Unescape(SubSeq(s, 5, Len(s)))
    ELSE IF IsPrefix(<<"&", "g", "t", ";">>, s)
         THEN <<">">> \o Unescape(SubSeq(s, 5, Len(s)))
    ELSE <<"?">> \o Unescape(Tail(s))

\* no raw '<' or '>', and every '&' opens one of the escaper's escapes
NoRawMarkup(s) ==
    \A i \in 1..Len(s) :
        /\ s[i] \notin {"<", ">"}
        /\ s[i] = "&" => \E e \in Escapes : IsPrefix(e, SubSeq(s, i, Len(s)))

\* the text of the last list item of a content: what stands between the
\* bullet of the last <div> and the closing tag
LastItemText(content) ==
    LET divs == {i \in 1..Len(content) : content[i] = "<div>"}
        k    == CHOOSE i \in divs : \A j \in divs : j <= i
    IN SubSeq(content, k + 3, Len(content) - 1)

----------------------------------------------------------------------------
(* Task and note captures: the defaults of the rows *)

NextDefaults ==
    \/ NoteCapture(NoteCaptures \cup TaskResponses)
    \/ \E ok \in BOOLEAN : TasksCreateReturns(ok)

SpecDefaults == InitNotes /\ [][NextDefaults]_vars

TaskWithoutPriority == cap.data.type = "task" /\ cap.data.data.priority = ""

NoteWithoutTitle == cap.data.type = "note" /\ cap.data.data.title = <<>>

\* C16, as stated: a task captured without priority is stored with priority
\* medium, and a note captured without title is stored with the first
\* TITLE_CHARS characters of its content as title
DefaultsApplied ==
    obs.result = "success" =>
        /\ TaskWithoutPriority =>
               /\ SavedRows(tasks) # {}
               /\ \A t \in SavedRows(tasks) : t.priority = "medium"
        /\ NoteWithoutTitle =>
               /\ SavedRows(notes) # {}
               /\ \A n \in SavedRows(notes) :
                      n.title = Substring0(cap.data.data.content, TITLE_CHARS)

\* C16, amended: the note's default title holds for a note whose text does not
\* match the bucket pattern, which is stored with its content as captured
DefaultsAppliedOutsideBuckets ==
    obs.result = "success" =>
        /\ TaskWithoutPriority =>
               /\ SavedRows(tasks) # {}
               /\ \A t \in SavedRows(tasks) : t.priority = "medium"
        /\ (NoteWithoutTitle /\ ~cap.mergeInfo.found) =>
               /\ SavedRows(notes) # {}
               /\ \A n \in SavedRows(notes) :
                      /\ n.content = cap.data.data.content
                      /\ n.title = Substring0(n.content, TITLE_CHARS)

\* a note longer than TITLE_CHARS was stored under its first TITLE_CHARS characters
LongNoteTitled ==
    /\ obs.result = "success"
    /\ NoteWithoutTitle
    /\ \E n \in SavedRows(notes) :
           /\ Len(n.content) = TITLE_CHARS + 1
           /\ Len(n.title) = TITLE_CHARS
           /\ n.title = SubSeq(n.content, 1, TITLE_CHARS)

----------------------------------------------------------------------------
(* Properties of the captured photos (checked on the capture box alone) *)

\* some record carries this object of the capture-media bucket
Referenced(k) ==
    \/ \E r \in tasks : r.photo_url = k
    \/ \E r \in notes : r.photo_url = k
    \/ \E r \in transactions : r.photo_url = k

\* C17: a successful note capture that was appended to an existing note has
\* uploaded no photo, and after a successful note capture every uploaded
\* photo is referenced by a record
PhotoOnlyOnCreateNew ==
    (cap.data.type = "note" /\ obs.result = "success") =>
        /\ cap.existingNote # None => obs.upload = "none"
        /\ \A k \in media : Referenced(k)

\* a note capture with a photo was appended: the photo was uploaded and no
\* record carries it
PhotoOrphanedByMerge ==
    /\ Merged
    /\ obs.upload = "ok"
    /\ cap.photoUrl \in media
    /\ ~Referenced(cap.photoUrl)

\* the last capture stopped on an error of the record store
StoreFailed == obs.fatal = "store"

\* after a persistence failure: no success, no record of the capture
StoreErrorIsFatal ==
    StoreFailed =>
        /\ obs.result = "failed"
        /\ ~ui.success
        /\ obs.saved = None

\* C18: a capture that stopped on an error of the record store reports no
\* success, has no record, and the photo it uploaded, if any, is not left in
\* the bucket without a record that references it
StoreErrorLeavesNothing ==
    StoreFailed =>
        /\ StoreErrorIsFatal
        /\ obs.upload = "ok" => (cap.photoUrl \notin media \/ Referenced(cap.photoUrl))

\* the store failed after the upload: the photo is in the bucket, no record
\* carries it
PhotoOrphanedByStoreError ==
    /\ StoreFailed
    /\ obs.upload = "ok"
    /\ cap.photoUrl \in media
    /\ ~Referenced(cap.photoUrl)

----------------------------------------------------------------------------
(* Two sessions capture bucket notes at the same time *)

\* "g: m" here; "G: e" or the same "g: m" there
RaceCaptures == {BucketCapture(<<"g">>, <<"m">>)}

OtherCaptures ==
    {BucketCapture(<<"G">>, <<"e">>).data, BucketCapture(<<"g">>, <<"m">>).data}

InitRace ==
    /\ InitNotes
    /\ notes = {} \/ \E n \in notes : n.content = EntryMarkup(<<"m">>)

NextRace ==
    \/ HandleSubmit
    \/ \E r \in RaceCaptures : ParseCaptureReturns(r)
    \/ \E ok \in BOOLEAN : NotesSelectReturns(ok)
    \/ \E ok \in BOOLEAN : NotesUpdateReturns(ok)
    \/ \E ok \in BOOLEAN : NotesInsertReturns(ok)
    \/ \E noteData \in OtherCaptures : OtherNotesCreate(noteData)
    \/ \E ok \in BOOLEAN : OtherSelectReturns(ok)
    \/ \E ok \in BOOLEAN : OtherUpdateReturns(ok)
    \/ \E ok \in BOOLEAN : OtherInsertReturns(ok)

SpecRace == InitRace /\ [][NextRace]_vars

(* Properties of the two sessions *)

\* this session's capture created a bucket note
CaptureCreated ==
    /\ obs.result = "success"
    /\ cap.mergeInfo.found
    /\ cap.existingNote = None
    /\ obs.saved # None

\* the other session's call created a bucket note
OtherCreated ==
    /\ other.result = "success"
    /\ other.mergeInfo.found
    /\ other.existingNote = None
    /\ other.saved # None

SameBucket == EqualIgnoringCase(cap.mergeInfo.bucketTitle, other.mergeInfo.bucketTitle)

\* C19: two notes with the same bucket title are reachable, and when both
\* sessions have created a note for the same bucket, neither lookup had seen
\* the other's note: each ran before the other's insert
DuplicatesOnlyByRace ==
    (CaptureCreated /\ OtherCreated /\ SameBucket) =>
        /\ obs.saved \notin other.seen
        /\ other.saved \notin obs.seen

\* both captures decided CreateNew and both inserted: two notes titled "g"/"G"
TwoNotesSameBucket ==
    /\ CaptureCreated /\ OtherCreated /\ SameBucket
    /\ obs.saved # other.saved
    /\ \E a \in RowsById(notes, obs.saved) :
           \E b \in RowsById(notes, other.saved) :
               /\ EqualIgnoringCase(a.title, b.title)
               /\ EqualIgnoringCase(a.title, cap.mergeInfo.bucketTitle)

\* both sessions appended to the same note and both returned success
BothMerged ==
    /\ Merged
    /\ other.result = "success"
    /\ other.existingNote = cap.existingNote

\* C20: a lost update is reachable, and when both sessions have appended to
\* the same note its content is what one of them wrote, and that writer either
\* had read what the other wrote (both entries are there) or had read the same
\* prior content as the other (the other's entry is overwritten)
LostUpdateOnlyOnSameRead ==
    BothMerged =>
        \A n \in SavedRows(notes) :
            \/ /\ n.content = cap.newContent
               /\ cap.baseContent \in {other.newContent, other.baseContent}
            \/ /\ n.content = other.newContent
               /\ other.baseContent \in {cap.newContent, cap.baseContent}

\* both captures returned success and the note, which held one entry, holds
\* two: one of the two new entries is gone
UpdateLost ==
    /\ BothMerged
    /\ cap.baseContent = other.baseContent
    /\ \E n \in SavedRows(notes) :
           /\ ListItems(n.content) = ListItems(cap.baseContent) + 1
           /\ n.content \in {cap.newContent, other.newContent}

----------------------------------------------------------------------------
(* The bridge called directly: pushes of stored events *)

\* no handler in flight, nothing called yet
AtRest ==
    /\ ui = [input |-> <<>>, loading |-> FALSE, success |-> FALSE, parsed |-> NoParsed,
             photoFile |-> None, photoUploading |-> FALSE, notice |-> NoNotice]
    /\ pc = "idle"
    /\ cap = NoCap
    /\ now = 0
    /\ syncPc = "idle" /\ sync = NoSync
    /\ delPc = "idle" /\ del = NoDel
    /\ other = NoOther
    /\ call = NoCall
    /\ obs = NewObs
    /\ nSubmits = 0 /\ nSyncs = 0 /\ nDeletes = 0 /\ nRemote = 0

\* a local event from 1 to 2, not linked or linked to the remote event 2
BridgeEvents ==
    LET e == EventRow(1, [startTime |-> 1, endTime |-> 2], 0)
    IN {{e}, SetGoogleEventId({e}, 1, 2, 0)}

\* Google holds nothing, or the remote event 2, which was moved there
BridgeCalendars ==
    {{}, {[id |-> 2, timed |-> TRUE, start |-> 2, end |-> 3, updated |-> 0]}}

InitBridge ==
    /\ AtRest
    /\ tasks = {} /\ notes = {} /\ transactions = {} /\ media = {}
    /\ events \in BridgeEvents
    /\ gcal \in BridgeCalendars
    /\ nextId = 3

NextBridge ==
    \/ \E e \in events, token \in Tokens, apiOk \in BOOLEAN : PushCall(e, token, apiOk)
    \/ \E e \in events, signedIn \in BOOLEAN, apiOk \in BOOLEAN :
           GapiPushCall(e, signedIn, apiOk)
    \/ LinkCall
    \/ Tick

SpecBridge == InitBridge /\ [][NextBridge]_vars

\* a push has just returned without throwing or skipping
PushDone ==
    /\ call'.n # call.n
    /\ call'.fn = "push"
    /\ ~call'.res.threw /\ ~call'.res.skipped

\* C21: a push of an unlinked event adds one external event under a new id and
\* returns that id; a push of a linked event returns the id it is linked to,
\* adds no external event and leaves the local start and end in that event; a
\* push that throws or skips changes nothing
PushCreatesOrUpdates ==
    [][/\ PushDone =>
              LET e  == call'.event
                  id == call'.res.id
              IN IF e.google_event_id = None
                 THEN /\ id # None /\ id \notin RemoteIds(gcal)
                      /\ gcal' = gcal \cup {RemoteEvent(id, e, now)}
                 ELSE /\ id = e.google_event_id
                      /\ RemoteIds(gcal') = RemoteIds(gcal)
                      /\ Cardinality(gcal') = Cardinality(gcal)
                      /\ \A g \in gcal' :
                             IF g.id = id
                             THEN g.start = e.start_time /\ g.end = e.end_time
                             ELSE g \in gcal
       /\ (call'.n # call.n /\ call'.fn = "push" /\ ~PushDone) =>
              /\ gcal' = gcal
              /\ call'.res.id = None]_vars

\* the linked event was pushed: the remote event 2 now runs from 1 to 2, and
\* it is the only one
LinkedEventUpdated ==
    /\ call.fn = "push"
    /\ call.event.google_event_id = 2
    /\ ~call.res.threw /\ ~call.res.skipped
    /\ gcal = {RemoteEvent(2, call.event, now)}

----------------------------------------------------------------------------
(* Properties of the stored transactions (checked on the capture box alone) *)

\* C22: every stored expense or income has an amount above zero
AmountsArePositive == \A t \in transactions : t.amount > 0

\* a capture classified as an expense or income of amount 0 was stored and
\* reported success
ZeroAmountStored ==
    /\ obs.result = "success"
    /\ cap.data.type \in {"expense", "income"}
    /\ \E t \in SavedRows(transactions) : t.amount = 0

----------------------------------------------------------------------------
(* Captures while the clock runs: the timestamps of the rows *)

InitStamps ==
    /\ InitNotes
    /\ notes = {} \/ \E n \in notes : n.content = EntryMarkup(<<"m">>)

NextStamps ==
    \/ HandleSubmit
    \/ \E r \in MeetingResponses \cup {BucketCapture(<<"g">>, <<"m">>)} :
           ParseCaptureReturns(r)
    \/ \E ok \in BOOLEAN : EventsCreateReturns(ok)
    \/ \E token \in Tokens, apiOk \in BOOLEAN : PushReturns(token, apiOk)
    \/ \E ok \in BOOLEAN : LinkReturns(ok)
    \/ \E ok \in BOOLEAN : NotesSelectReturns(ok)
    \/ \E ok \in BOOLEAN : NotesUpdateReturns(ok)
    \/ \E ok \in BOOLEAN : NotesInsertReturns(ok)
    \/ \E text \in {<<"x">>} : SetInput(text)
    \/ Tick

SpecStamps == InitStamps /\ [][NextStamps]_vars

\* what a step may do to the timestamps of a table: a row that stays keeps its
\* creation timestamp, a row that changes is stamped with the time of the
\* change, a new row is stamped with the time of its creation
StampsStep(old, new, t) ==
    \A r2 \in new :
        IF r2.id \in {r.id : r \in old}
        THEN \A r \in RowsById(old, r2.id) :
                 /\ r2.created_at = r.created_at
                 /\ r2 # r => r2.updated_at = t
        ELSE r2.created_at = t /\ r2.updated_at = t

----------------------------------------------------------------------------
(* Deleting records that carry a photo *)

\* one task, one note and one transaction with a photo, and a task without;
\* the bucket holds every photo, or the note's photo is already gone
InitRemove ==
    /\ AtRest
    /\ tasks = {TaskRow(1, [priority |-> "", photoUrl |-> 5]),
                TaskRow(4, [priority |-> "", photoUrl |-> None])}
    /\ notes = {NoteRow(2, [title |-> <<"t">>, content |-> <<"c">>, photoUrl |-> 6], 0)}
    /\ transactions = {TransactionRow(3, [amount |-> 45, type |-> "expense", photoUrl |-> 7])}
    /\ events = {} /\ gcal = {}
    /\ media \in {{5, 6, 7}, {5, 7}}
    /\ nextId = 8

NextRemove ==
    \/ \E table \in DeleteTables, id \in 1..4 : StorageDelete(table, id)
    \/ \E ok \in BOOLEAN : GetPhotoReturns(ok)
    \/ \E ok \in BOOLEAN : SafeDeletePhotoReturns(ok)
    \/ \E ok \in BOOLEAN : RowDeleteReturns(ok)

SpecRemove == InitRemove /\ [][NextRemove]_vars

\* C24: a delete that found a photo on the row asks for the photo's removal
\* before it asks for the row's deletion, and goes on to the row's deletion
\* whether the removal succeeded or threw; once the store has deleted the row it
\* is gone
PhotoRemovalNeverBlocks ==
    (call.fn = "delete" /\ call.photo # None) =>
        /\ call.pc = "delete" => call.removal \in {"removed", "threw"}
        /\ call.pc = "done" => /\ call.removal \in {"removed", "threw"}
                               /\ call.row \in {"deleted", "threw"}
        /\ call.row = "deleted" => RowsById(TableRows(call.table), call.id) = {}

\* a record was deleted though the removal of its photo threw
DeletedDespitePhotoError ==
    /\ call.fn = "delete" /\ call.pc = "done"
    /\ call.photo # None
    /\ call.removal = "threw"
    /\ call.row = "deleted"
    /\ call.photo \in media

----------------------------------------------------------------------------
(* The bucket pattern on every short text *)

MaxSourceLen == 4

\* every text of a letter, the two separators and the space
SplitSources == UNION {[1..n -> {"g", ":", "-", " "}] : n \in 1..MaxSourceLen}

\* notes without a title, and two with a title next to a content that has a
\* separator of its own
SplitCaptures ==
    {PlainCapture(c) : c \in SplitSources}
        \cup {[type |-> "note", data |-> [title |-> t, content |-> <<"b", "-", "b">>]] :
                 t \in {<<"g", ":", "b">>, <<"g">>}}

InitSplit == InitNotes

NextSplit ==
    \/ HandleSubmit
    \/ \E r \in SplitCaptures : ParseCaptureReturns(r)
    \/ \E ok \in BOOLEAN : NotesSelectReturns(ok)
    \/ \E ok \in BOOLEAN : NotesUpdateReturns(ok)
    \/ \E ok \in BOOLEAN : NotesInsertReturns(ok)

SpecSplit == InitSplit /\ [][NextSplit]_vars

\* the positions of the separators of s from position from on
SeparatorsFrom(s, from) == {i \in from..Len(s) : IsSeparator(s[i])}

Before(s, i) == Trim(SubSeq(s, 1, i - 1))

After(s, i) == Trim(SubSeq(s, i + 1, Len(s)))

\* a note capture is past extractMergeInfo
NoteInSwitch == pc \in {"notes.select", "notes.update", "notes.insert"}

\* the text extractMergeInfo looked at
NoteSource == Trim(IF cap.data.data.title # <<>> THEN cap.data.data.title
                   ELSE cap.data.data.content)

\* the bucket pattern was found exactly when some separator from position
\* from on has text on both sides, and the split is at the first separator from
\* position from on; without a match the note goes to the insert as captured
SplitsAtFirstFrom(from) ==
    NoteInSwitch =>
        LET seps == SeparatorsFrom(NoteSource, from)
            i    == CHOOSE k \in seps : \A j \in seps : k <= j
        IN IF \E j \in seps : Before(NoteSource, j) # <<>> /\ After(NoteSource, j) # <<>>
           THEN /\ cap.mergeInfo.found
                /\ cap.mergeInfo.bucketTitle = Before(NoteSource, i)
                /\ cap.mergeInfo.entry = After(NoteSource, i)
           ELSE /\ ~cap.mergeInfo.found
                /\ pc = "notes.insert"
                /\ cap.noteData.title = cap.data.data.title
                /\ cap.noteData.content = cap.data.data.content

\* a note stored without a match has the captured content
StoredAsIs ==
    (pc = "idle" /\ cap.data.type = "note" /\ ~cap.mergeInfo.found) =>
        \A n \in RowsById(notes, obs.saved) : n.content = cap.data.data.content

\* C25 as stated: the split is at the first colon or hyphen of the trimmed text
SplitsAtFirstSeparator == SplitsAtFirstFrom(1) /\ StoredAsIs

\* C25: the split is at the first colon or hyphen after the first character of
\* the trimmed text: the bucket is the trimmed text before it, the entry the
\* trimmed text after it; a text without a colon or hyphen that has text on
\* both sides is no match, and the note is stored with its content as captured
SplitsAtFirstInnerSeparator == SplitsAtFirstFrom(2) /\ StoredAsIs

\* "-g:g" was split at its colon, into the bucket "-g" and the entry "g"
LeadingSeparatorInBucket ==
    /\ NoteInSwitch
    /\ cap.mergeInfo.found
    /\ IsSeparator(NoteSource[1])
    /\ cap.mergeInfo.bucketTitle = <<"-", "g">>

----------------------------------------------------------------------------
(* A pull after an earlier pull of the same, unchanged calendar *)

\* Google holds the timed event 2, with or without an all-day event
PulledCalendars ==
    LET g == [id |-> 2, timed |-> TRUE, start |-> 1, end |-> 2, updated |-> 1]
        d == [id |-> 3, timed |-> FALSE, start |-> 1, end |-> 2, updated |-> 1]
    IN {{g}, {g, d}}

\* what an earlier pull left of the event 2: nothing (it threw before its
\* create); the row without the external id (the pull of calendar.ts, or the
\* pull of google-calendar.ts when its update threw); the linked row
EventsAfterPull ==
    LET e == EventRow(1, [startTime |-> 1, endTime |-> 2], 0)
    IN {{}, {e}, SetGoogleEventId({e}, 1, 2, 0)}

InitPulls ==
    /\ AtRest
    /\ tasks = {} /\ notes = {} /\ transactions = {} /\ media = {}
    /\ events \in EventsAfterPull
    /\ gcal \in PulledCalendars
    /\ nextId = 4

NextPulls == Pull \/ Tick

SpecPulls == InitPulls /\ [][NextPulls]_vars

TimedRemote == {g \in gcal : g.timed}

\* C26: the calendar does not change and every local event comes from a pull
\* of it, so under idempotent pulls there are never more local events than
\* timed remote events
PullIsIdempotent == Cardinality(events) <= Cardinality(TimedRemote)

\* a pull that ran to its end left a second local event for the one timed
\* remote event
DuplicateAfterRepeat ==
    /\ sync.result = "done"
    /\ Cardinality(events) = 2
    /\ Cardinality(TimedRemote) = 1

----------------------------------------------------------------------------
(* An event capture and a pull at the same time *)

\* the local events made from or for the external event gid and still
\* stored: the captured event whose push returned gid, the events a pull
\* created for gid, and the rows that reference gid
CounterpartsOf(gid) ==
    LET pushed  == IF cap.googleEventId = gid THEN {cap.createdEvent.id} ELSE {}
        pulled  == {c.id : c \in {d \in sync.created : d.gid = gid}}
        linked  == {e.id : e \in {r \in events : r.google_event_id = gid}}
    IN (pushed \cup pulled \cup linked) \cap {e.id : e \in events}

\* C27: each external event has at most one local counterpart, however the
\* capture and the pull interleave
OneCounterpartPerExternal == \A g \in gcal : Cardinality(CounterpartsOf(g.id)) <= 1

\* the capture linked its event to the id its push returned, and a pull that
\* listed the calendar after the push and read the rows before the link has
\* created a second event for that id
DuplicateByRace ==
    /\ pc = "idle" /\ obs.link = "ok"
    /\ sync.result = "done"
    /\ \E g \in gcal : /\ g.id = cap.googleEventId
                       /\ Cardinality(CounterpartsOf(g.id)) = 2

----------------------------------------------------------------------------
(* The two storage back ends on the same note capture *)

\* the tables of the note captures, and a note whose title starts with a space
InitBackends ==
    /\ AtRest
    /\ tasks = {} /\ events = {} /\ transactions = {} /\ media = {} /\ gcal = {}
    /\ notes \in NotesBefore \cup
                   {{NoteRow(1, [title |-> <<" ", "g">>, content |-> <<"p">>,
                                 photoUrl |-> None], 0)}}
    /\ nextId = 2

NextBackends == NoteCapture(NoteCaptures) \/ LocalNotesCreateCall

SpecBackends == InitBackends /\ [][NextBackends]_vars

\* what SupabaseStorageService.notes.create decided for the capture in flight
SupabaseDecided ==
    IF cap.existingNote # None
    THEN [decision |-> "AppendTo", id |-> cap.existingNote,
          title |-> (CHOOSE n \in RowsById(notes, cap.existingNote) : TRUE).title,
          content |-> cap.newContent]
    ELSE [decision |-> "CreateNew", id |-> None,
          title |-> NoteRow(None, cap.noteData, now).title,
          content |-> cap.noteData.content]

\* LocalStorageService was given the capture in flight
LocalCalled == call.fn = "local.notes.create" /\ call.capture = nSubmits

\* C28: on the same capture and the same table the two back ends take the
\* same decision, for the same note, with the same title and content
BackendsAgree == LocalCalled => call.res = SupabaseDecided

\* the table holds only the note titled " g": for the capture "g: ..." the
\* local back end appends and the Supabase back end creates a note
BackendsDisagreeOnPaddedTitle ==
    /\ LocalCalled
    /\ \A n \in notes : n.id = 1 => n.title = <<" ", "g">>
    /\ notes # {}
    /\ call.res.decision = "AppendTo"
    /\ SupabaseDecided.decision = "CreateNew"

----------------------------------------------------------------------------
(* The capture box after a capture *)

\* the step ends a capture with success
CompletesCapture == obs'.result = "success" /\ obs.result # "success"

\* the step ends a capture with a throw out of parseCapture or handleConfirm
FailsCapture == obs'.fatal # "none" /\ obs.fatal = "none"

\* a failed capture keeps the input text and the photo selection
FailureKeepsInput ==
    [][FailsCapture => (ui'.input = ui.input /\ ui'.photoFile = ui.photoFile)]_vars

\* C29: the step that completes a capture leaves success true with parsed
\* still holding the capture, and the input and the photo selection cleared;
\* the step that fails a capture keeps the input and the photo selection
SuccessShowsCapture ==
    [][/\ CompletesCapture => /\ ui'.success /\ ui'.parsed # NoParsed
                              /\ ui'.input = <<>> /\ ui'.photoFile = None
       /\ FailsCapture => (ui'.input = ui.input /\ ui'.photoFile = ui.photoFile)]_vars

\* a capture with a photo has succeeded: success is true, parsed is null
SuccessWithoutParsed ==
    /\ pc = "idle" /\ obs.result = "success" /\ obs.upload = "ok"
    /\ ui.success
    /\ ui.parsed = NoParsed
    /\ ui.input = <<>> /\ ui.photoFile = None

\* the success feedback of line 441 is never rendered
FeedbackNeverShown == ~(ui.success /\ ui.parsed # NoParsed)

----------------------------------------------------------------------------
(* A capture under the assumption that every call it awaits returns *)

\* the return, or the throw, of the call the capture is waiting for
CallReturns ==
    \/ ParseCaptureThrows
    \/ \E r \in Responses : ParseCaptureReturns(r)
    \/ \E ok \in BOOLEAN : UploadCapturePhotoReturns(ok)
    \/ \E ok \in BOOLEAN : TasksCreateReturns(ok)
    \/ \E ok \in BOOLEAN : TransactionsCreateReturns(ok)
    \/ \E ok \in BOOLEAN : EventsCreateReturns(ok)
    \/ \E token \in Tokens, apiOk \in BOOLEAN : PushReturns(token, apiOk)
    \/ \E ok \in BOOLEAN : LinkReturns(ok)
    \/ \E ok \in BOOLEAN : NotesSelectReturns(ok)
    \/ \E ok \in BOOLEAN : NotesUpdateReturns(ok)
    \/ \E ok \in BOOLEAN : NotesInsertReturns(ok)

\* no promise the capture awaits stays pending for ever
SpecFair == Spec /\ WF_vars(CallReturns)

CaptureAtRest == pc = "idle" /\ ~ui.loading /\ ~ui.photoUploading

====
